---------------------------- MODULE Spec2Model ----------------------------
(***************************************************************************)
(* A model of the worker node of SPARE (valebes/spare, crate ohsw):        *)
(*   - the neighbor registry (orchestrator/global/mod.rs) with its three   *)
(*     strategies (geo_distance.rs, simple_cellular.rs, smart_latency.rs), *)
(*   - the local resource accountant (orchestrator/local_resources.rs),    *)
(*   - the orchestrator (orchestrator/mod.rs),                             *)
(*   - the /invoke handler (endpoints.rs) and the emergency controller     *)
(*     (main.rs).                                                          *)
(*                                                                         *)
(* Positions are points of one line of a grid on the sphere, GridStep      *)
(* metres apart, given by their index on the line: Location::distance is   *)
(* the great-circle distance, which along the line is GridStep times the   *)
(* difference of the indices.  Distances and radii are in metres.          *)
(*                                                                         *)
(* Latencies are f64 seconds in the code; here they are whole ticks of a   *)
(* third of a nanosecond, in which every delay of the latency model of     *)
(* simple_cellular.rs is a whole number.                                   *)
(***************************************************************************)
EXTENDS Integers, Sequences, FiniteSets, TLC

(***************************************************************************)
(* Bounds of the model.                                                    *)
(***************************************************************************)
\* positions are 0..MaxPos
MaxPos == 1
\* the metres between two neighbouring positions
GridStep == 400
\* emergency radii are 0, GridStep, ..., MaxRadius * GridStep
MaxRadius == 0
\* the registry of the registry specification holds at most MaxNodes peers
MaxNodes == 3

(***************************************************************************)
(* Program constants.                                                      *)
(***************************************************************************)
\* endpoints.rs: if data.hops > 10
MaxHops == 10
\* endpoints.rs: let max_retries = 3
max_retries == 3
\* simple_cellular.rs: maximum wireless antenna range (metres)
MAX_WIRELESS_DISTANCE == 500
\* simple_cellular.rs: maximum fiber backhaul distance (metres)
MAX_BACKHAUL_DISTANCE == 10000
\* 1 / SPEED_OF_LIGHT_AIR (3.0e8 m/s): ticks per metre
AIR_TICKS_PER_METRE == 10
\* 1 / SPEED_OF_LIGHT_FIBER (3.0e8 / 1.5 m/s): ticks per metre
FIBER_TICKS_PER_METRE == 15
\* PACKET_SIZE / ACCESS_BANDWIDTH = 12000 bit / 100 Mbps = 120 us
transmission_delay_access == 360000
\* PACKET_SIZE / BACKHAUL_BANDWIDTH = 12000 bit / 10 Gbps = 1.2 us
transmission_delay_backhaul == 3600
\* the mean of Exp::new(1.0 / 0.0005): 0.5 ms
MEAN_QUEUING_DELAY == 1500000
\* f64::MAX, the latency of a SmartLatency node without samples: larger
\* than every latency of the model
f64_MAX == 2147483647

VARIABLES
    \* NeighborNodeList
    nodes,              \* Vec<NeighborNodeType>: sequence of peers
    strategy,           \* NeighborNodeStrategy
    emergency,          \* Option<Emergency>
    \* Orchestrator
    identity,           \* Node: the local node
    in_emergency_area,  \* Mutex<bool>
    cpus_available,     \* LocalResources.cpus_available
    \* tasks
    ctl,                \* the emergency controller thread
    req,                \* the /invoke handlers, one per request
    \* the last call made on the registry, or on the pool of addresses, and
    \* what it returned
    last,
    \* FirecrackerBuilder and the invocation log
    network,            \* Mutex<Addresses>: the pool of guest addresses
    machines,           \* the TAPs and microVMs created, in order
    instances,          \* the rows of the table `instances`
    run,                \* the locals of start_instance, per handler
    \* the exchanges on a stream and the callers of the pool
    io,                 \* start_instance from the payload to the response
    sock,               \* a call of read_exact or write_all
    held,               \* the addresses got from the pool and not released
    guest,              \* how the guest of a run behaves, once it is known
    \* a cluster of nodes
    chain,              \* a request on its way from node to node
    \* the former registry
    legacy,             \* GlobalResources of global_resources.rs
    \* the orchestrator of icebreaker
    ice                 \* its three locks and the tasks that use them

vars == <<nodes, strategy, emergency, identity, in_emergency_area,
          cpus_available, ctl, req, last, network, machines, instances, run,
          io, sock, held, guest, chain, legacy, ice>>

io_vars == <<io, sock, held, guest, chain, legacy, ice>>

pipeline_vars == <<network, machines, instances, run, io_vars>>

\* Option::None; a value that is present stands for Some of it
None == <<>>
\* Some(s) of a string s
Some(s) == <<s>>

Abs(x) == IF x < 0 THEN -x ELSE x

Min(x, y) == IF x <= y THEN x ELSE y

\* (x / y).ceil() of x >= 0 and y > 0
CeilDiv(x, y) == (x + y - 1) \div y

Positions == 0..MaxPos
Radii == {GridStep * k : k \in 0..MaxRadius}

\* Emergency { position, radius }
Emergencies == [position : Positions, radius : Radii]

\* NeighborNodeStrategy
Strategies == {"GeoDistance", "SimpleCellular", "SmartLatency"}

(***************************************************************************)
(* Addresses are "ip:port" strings, modelled as sequences of characters.   *)
(***************************************************************************)
\* the address of the k-th peer: "<k>:8"
PeerAddress(k) == <<ToString(k), ":", "8">>
Addr1 == PeerAddress(1)
Addr2 == PeerAddress(2)
Addr3 == PeerAddress(3)
LocalAddress == <<"7", ":", "8">>

(***************************************************************************)
(* Distance::distance, the same for Emergency, Node, GeoDistance,          *)
(* SimpleCellular and SmartLatency: Location::distance(..).meters() of the *)
(* two positions.                                                          *)
(***************************************************************************)
distance(a, b) == GridStep * Abs(a - b)

\* GeoDistance::new
GeoDistance_new(position, address) ==
    [address |-> address, position |-> position, emergency |-> FALSE]

\* SimpleCellular::new; last_update is not kept: whether more than 60 s
\* passed since then is observed by the call that asks
SimpleCellular_new(position, address) ==
    [address |-> address, position |-> position, emergency |-> FALSE,
     latency |-> 0]

\* SmartLatency::new
SmartLatency_new(position, address) ==
    [address |-> address, position |-> position, emergency |-> FALSE,
     latency |-> f64_MAX, sample_count |-> 0]

(***************************************************************************)
(* SimpleCellular::estimate_latency of the node at `a` for the node at     *)
(* `b`; `queuing` is the sum of the queuing delays sampled for the hops.   *)
(***************************************************************************)
estimate_latency(a, b, queuing) ==
    LET d == distance(a, b)
        same_bs == d <= MAX_WIRELESS_DISTANCE
        access_hops == IF same_bs THEN 1 ELSE 2
        propagation_delay_access ==
            Min(d, MAX_WIRELESS_DISTANCE) * AIR_TICKS_PER_METRE
        backhaul_distance == IF same_bs THEN 0 ELSE d - MAX_WIRELESS_DISTANCE
        backhaul_hops ==
            IF same_bs THEN 0
            ELSE CeilDiv(backhaul_distance, MAX_BACKHAUL_DISTANCE)
        propagation_delay_backhaul ==
            IF backhaul_hops > 0
            THEN backhaul_distance * FIBER_TICKS_PER_METRE ELSE 0
    IN propagation_delay_access * access_hops
         + access_hops * transmission_delay_access
         + propagation_delay_backhaul * backhaul_hops
         + backhaul_hops * transmission_delay_backhaul
         + queuing

\* the sums of queuing delays an estimate can draw: next to nothing, or the
\* mean delay of one hop
QueuingDelays == {0, MEAN_QUEUING_DELAY}

\* What one call of sort on a list of n nodes reads from the clock and the
\* random generator: for each list index, whether more than 60 s passed
\* since last_update of the node there, and the queuing delay an estimate
\* for it would draw.
LatencyObservations(n) ==
    [1..n -> [elapsed : BOOLEAN, queuing : QueuingDelays]]

\* the observation of a call that reads neither
NoObservation(n) ==
    [k \in 1..n |-> [elapsed |-> FALSE, queuing |-> 0]]

\* what a call of sort on a list of n nodes can observe under the strategy
\* `strat`: only the nodes of SimpleCellular read the clock and draw delays
Observations(strat, n) ==
    IF strat = "SimpleCellular" THEN LatencyObservations(n)
    ELSE {NoObservation(n)}

\* SimpleCellular::latency: the node after the call; self.latency is what
\* the call returns
SimpleCellular_latency(node, current, ob) ==
    IF node.latency = 0 \/ ob.elapsed
    THEN [node EXCEPT !.latency = estimate_latency(node.position,
                                                   current.position, ob.queuing)]
    ELSE node

\* SmartLatency::latency: the node after the call, which is the node
SmartLatency_latency(node, current) == node

\* the quotient a / b of two f64 that hold whole numbers, for a quotient
\* that is a whole number too
f64_div(a, b) == IF a >= 0 THEN a \div b ELSE 0 - ((0 - a) \div b)

\* SmartLatency::update_latency: the node after the call, with the running
\* mean of its samples
update_latency(node, new_latency) ==
    LET before == IF node.sample_count = 0 THEN 0 ELSE node.latency
        count == node.sample_count + 1
    IN [node EXCEPT !.sample_count = count,
                    !.latency = before + f64_div(new_latency - before, count)]

(***************************************************************************)
(* NeighborNodeList                                                        *)
(***************************************************************************)
\* NeighborNodeList::add_node: push a node of the strategy at the end of the
\* list
add_node(ns, strat, address, position) ==
    Append(ns,
           CASE strat = "GeoDistance" -> GeoDistance_new(position, address)
             [] strat = "SimpleCellular" -> SimpleCellular_new(position, address)
             [] strat = "SmartLatency" -> SmartLatency_new(position, address))

\* NeighborNodeList::set_emergency, the loop over the nodes: a node inside
\* the disk is flagged, a node outside keeps its flag
set_emergency_flags(ns, em_pos) ==
    [i \in DOMAIN ns |->
        IF distance(em_pos.position, ns[i].position) <= em_pos.radius
        THEN [ns[i] EXCEPT !.emergency = TRUE]
        ELSE ns[i]]

clear_emergency_flags_mutant(ns) ==
    [i \in DOMAIN ns |->
        IF i < Len(ns) THEN [ns[i] EXCEPT !.emergency = FALSE] ELSE ns[i]]

\* NeighborNodeList::clear_emergency, the loop over the nodes
clear_emergency_flags(ns) ==
    [i \in DOMAIN ns |-> [ns[i] EXCEPT !.emergency = FALSE]]

\* NeighborNodeList::get_nth: the loop, from list index k with `count`
\* unmasked nodes seen so far
RECURSIVE get_nth_from(_, _, _, _)
get_nth_from(ns, nth, k, count) ==
    IF k > Len(ns) THEN None
    ELSE IF ~ns[k].emergency
         THEN IF count = nth THEN ns[k]
              ELSE get_nth_from(ns, nth, k + 1, count + 1)
         ELSE get_nth_from(ns, nth, k + 1, count)

\* the loop of geo_distance::get_nth_closest_node, which counts before it
\* compares
RECURSIVE get_nth_counting_first(_, _, _, _)
get_nth_counting_first(ns, nth, k, count) ==
    IF k > Len(ns) THEN None
    ELSE IF ~ns[k].emergency
         THEN IF count + 1 = nth THEN ns[k]
              ELSE get_nth_counting_first(ns, nth, k + 1, count + 1)
         ELSE get_nth_counting_first(ns, nth, k + 1, count)

get_nth_mutant(ns, nth) == get_nth_counting_first(ns, nth, 1, 0)

get_nth(ns, nth) == get_nth_from(ns, nth, 1, 0)

\* Orchestrator::number_of_nodes: nodes.iter().filter(!emergency).count()
RECURSIVE count_from(_, _)
count_from(ns, k) ==
    IF k > Len(ns) THEN 0
    ELSE (IF ~ns[k].emergency THEN 1 ELSE 0) + count_from(ns, k + 1)

number_of_nodes(ns) == count_from(ns, 1)

(***************************************************************************)
(* slice::sort_by is a stable sort.  Here it sorts pairs <<key, element>>  *)
(* by their keys: the pairs are inserted one by one, each after the pairs  *)
(* that do not compare greater.                                            *)
(***************************************************************************)
cmp_greater_mutant(a, b) == a[1] >= b[1]

\* a.partial_cmp(&b) is Greater, for the keys of two pairs
cmp_greater(a, b) == a[1] > b[1]

RECURSIVE sort_by_insert(_, _)
sort_by_insert(sorted, x) ==
    IF sorted = <<>> THEN <<x>>
    ELSE IF cmp_greater(sorted[Len(sorted)], x)
         THEN Append(sort_by_insert(SubSeq(sorted, 1, Len(sorted) - 1), x),
                     sorted[Len(sorted)])
         ELSE Append(sorted, x)

RECURSIVE sort_by_prefix(_, _)
sort_by_prefix(pairs, k) ==
    IF k = 0 THEN <<>>
    ELSE sort_by_insert(sort_by_prefix(pairs, k - 1), pairs[k])

\* the elements of `pairs`, in the stable order of their keys
sort_by(pairs) ==
    LET sorted == sort_by_prefix(pairs, Len(pairs))
    IN [k \in DOMAIN pairs |-> sorted[k][2]]

sort_by_distance_mutant(ns, current) == ns

\* NeighborNodeList::sort_by_distance: the key of a node is
\* node.distance(current)
sort_by_distance(ns, current) ==
    sort_by([i \in DOMAIN ns |->
                <<distance(ns[i].position, current.position), ns[i]>>])

sort_by_latency_mutant(ns, strat, current, obs) ==
    LET called == [i \in DOMAIN ns |->
                      IF strat = "SimpleCellular"
                      THEN SimpleCellular_latency(ns[i], current, obs[i])
                      ELSE SmartLatency_latency(ns[i], current)]
    IN sort_by([i \in DOMAIN ns |-> <<called[i].latency, called[1]>>])

\* NeighborNodeList::sort_by_latency: node.latency(current) is called on
\* every node of the list, the pairs (latency, index) are sorted by latency
\* and the list becomes the nodes at these indices
sort_by_latency(ns, strat, current, obs) ==
    LET called == [i \in DOMAIN ns |->
                      IF strat = "SimpleCellular"
                      THEN SimpleCellular_latency(ns[i], current, obs[i])
                      ELSE SmartLatency_latency(ns[i], current)]
    IN sort_by([i \in DOMAIN ns |-> <<called[i].latency, called[i]>>])

sort_mutant(ns, strat, em, current, obs) ==
    CASE strat = "GeoDistance" -> sort_by_distance(ns, current)
      [] OTHER -> sort_by_latency(ns, strat, current, obs)

\* NeighborNodeList::sort: the dispatch on the strategy; `em` is the stored
\* emergency
sort(ns, strat, em, current, obs) ==
    CASE strat = "GeoDistance" -> sort_by_distance(ns, current)
      [] strat = "SimpleCellular" -> sort_by_latency(ns, strat, current, obs)
      [] strat = "SmartLatency" ->
            IF em # None THEN sort_by_latency(ns, strat, current, obs) ELSE ns

\* NeighborNodeList::set_emergency as a call on the registry
NeighborNodeList_set_emergency(em_pos) ==
    /\ nodes' = set_emergency_flags(nodes, em_pos)
    /\ emergency' = em_pos

\* NeighborNodeList::clear_emergency as a call on the registry
NeighborNodeList_clear_emergency ==
    /\ emergency' = None
    /\ nodes' = clear_emergency_flags(nodes)

(***************************************************************************)
(* Orchestrator                                                            *)
(***************************************************************************)
\* str::contains: t occurs in s as a substring
contains(s, t) ==
    \E k \in 0..(Len(s) - Len(t)) : SubSeq(s, k + 1, k + Len(t)) = t

\* Orchestrator::new, the loop that adds the nodes of the broker's list
RECURSIVE add_nodes(_, _, _)
add_nodes(list, strat, k) ==
    IF k = 0 THEN <<>>
    ELSE add_node(add_nodes(list, strat, k - 1), strat,
                  list[k].address, list[k].position)

\* Orchestrator::new: the registry after the nodes are added and sorted
\* relative to GeoDistance::new(identity.position, "")
Orchestrator_new(list, strat, ident, obs) ==
    sort(add_nodes(list, strat, Len(list)), strat, None,
         GeoDistance_new(ident.position, <<>>), obs)

\* Orchestrator::new: the strategies the STRATEGY variable can select
SelectableStrategies == {"GeoDistance", "SimpleCellular"}

\* GET /emergency: orchestrator.in_emergency_area()
emergency_endpoint == in_emergency_area


(***************************************************************************)
(* Inputs of the worker specification.                                     *)
(***************************************************************************)
\* the handlers of concurrent POST /invoke requests
NumRequests == 2
\* num_cpus::get(): the logical CPUs of the host
CpuTotal == 2
\* the vcpus a request asks for are 1..MaxVcpus
MaxVcpus == 1
\* the memory a request asks for is 1..MaxMemory MB
MaxMemory == 1

Requests == 1..NumRequests

\* the source IP of a request: the first peer's, or a client's
ClientIp == <<"9">>
SourceIps == {<<"1">>, ClientIp}

\* InvokeFunction
InvokeFunctions ==
    [function : {"f"}, image : {"img"}, vcpus : 1..MaxVcpus,
     memory : 1..MaxMemory, payload : {None, Some("abc")}, emergency : BOOLEAN,
     hops : {0, MaxHops, MaxHops + 1}]

\* LocalResources::get_available_memory: MemAvailable of /proc/meminfo in KB,
\* 0 when it cannot be read
AvailableMemory == {0, 1024 * MaxMemory}

\* what a peer answers to GET /resources
PeerResources == [cpus : {0, MaxVcpus}, memory : {0, 1024 * MaxMemory}]
\* the GET fails, or its answer is no JSON Resources
SendError == [error |-> "send"]
JsonError == [error |-> "json"]
\* the POST to a peer fails, or is answered with another status than 200
InvokeError == "InvokeError::Unknown"

\* the answers of the handler
TooManyHops == [status |-> 500, body |-> "Too many hops\n"]
InsufficientResources == [status |-> 500, body |-> "Insufficient resources\n"]
FailedToStart == [status |-> 500, body |-> "Failed to start instance\n"]
Ok(body) == [status |-> 200, body |-> body]

\* a handler that has not received its request
IdleRequest ==
    [pc |-> "idle", data |-> None, src |-> None,
     n |-> 0, i |-> 0, node |-> None, retries |-> 0, resp |-> None,
     \* history of the request
     in_area |-> FALSE,     \* in_emergency_area as read by the handler
     held |-> 0,            \* cpus acquired by the request and not released
     checks |-> 0,          \* check_and_acquire_resources calls
     acquired |-> 0,        \* those that returned Ok
     runs |-> 0,            \* start_instance calls
     records |-> 0,         \* invocation records inserted
     resources |-> None,    \* remote_resources of the iteration
     skipped |-> <<>>,      \* peers skipped as the origin, in order
     probed |-> <<>>,       \* peers sent GET /resources, in order
     forwards |-> <<>>,     \* requests posted to peers, with the answer of
                            \* the probe and the result of the POST
     steady |-> {}]         \* peers unmasked since the offload began

\* the addresses of the unmasked peers
unmasked(ns) == {ns[k].address : k \in {j \in DOMAIN ns : ~ns[j].emergency}}

\* the registry is write-locked by the emergency controller
registry_locked == ctl.pc # "idle"

(***************************************************************************)
(* POST /invoke (endpoints.rs)                                             *)
(***************************************************************************)
too_many_hops_mutant(hops) == hops >= MaxHops

\* if data.hops > 10
too_many_hops(hops) == hops > MaxHops

emergency_offload_mutant(in_area, data) == in_area

\* if orchestrator.in_emergency_area() && !data.emergency
emergency_offload(in_area, data) == in_area /\ ~data.emergency

\* The request arrives: the hop check, then the emergency check, which
\* reads in_emergency_area under its mutex.
invoke_entry(r, data, src) ==
    /\ req[r].pc = "idle"
    /\ req' = [req EXCEPT ![r] =
         IF too_many_hops(data.hops)
         THEN [@ EXCEPT !.pc = "done", !.data = data, !.src = src,
                        !.resp = TooManyHops]
         ELSE IF emergency_offload(in_emergency_area, data)
         THEN [@ EXCEPT !.pc = "offload", !.data = data, !.src = src,
                        !.in_area = in_emergency_area]
         ELSE [@ EXCEPT !.pc = "acquire", !.data = data, !.src = src,
                        !.in_area = in_emergency_area]]
    /\ UNCHANGED <<pipeline_vars, nodes, strategy, emergency, identity, in_emergency_area,
                   cpus_available, ctl, last>>

\* data.memory * 1024 in i32: the low 32 bits of the product, as a signed
\* number (a build without overflow checks)
i32_mul_1024(m) ==
    LET low == (m % 2097152) * 1024
    IN IF (m \div 2097152) % 2 = 1 THEN low - 2147483647 - 1 ELSE low

\* (v as usize) <= x: a negative v is converted to a number above every x
as_usize_le(v, x) == v >= 0 /\ v <= x

acquire_cpus_mutant(available, cpus) ==
    IF available >= cpus THEN available - 1 ELSE None

\* LocalResources::acquire_cpus: checked_sub
acquire_cpus(available, cpus) ==
    IF available >= cpus THEN available - cpus ELSE None

\* LocalResources::release_cpus: checked_add (no overflow at these sizes)
release_cpus(available, cpus) == available + cpus

\* Orchestrator::check_and_acquire_resources(vcpus, memory * 1024), under
\* the mutex of the resources; `memory_available` is what the OS reports
check_and_acquire_resources(r, memory_available) ==
    /\ req[r].pc = "acquire"
    /\ LET cpus == req[r].data.vcpus
           memory == i32_mul_1024(req[r].data.memory)
       IN IF cpus > cpus_available \/ ~as_usize_le(memory, memory_available)
          THEN \* Err(InsufficientResources)
               /\ req' = [req EXCEPT ![r].pc = "release_unacquired",
                                     ![r].checks = @ + 1]
               /\ UNCHANGED cpus_available
          ELSE /\ cpus_available' = acquire_cpus(cpus_available, cpus)
               /\ req' = [req EXCEPT ![r].pc = "run", ![r].held = @ + cpus,
                                     ![r].checks = @ + 1,
                                     ![r].acquired = @ + 1]
    /\ UNCHANGED <<pipeline_vars, nodes, strategy, emergency, identity, in_emergency_area,
                   ctl, last>>

\* if _resources.is_err(): release_resources(data.vcpus), then offload
release_unacquired(r) ==
    /\ req[r].pc = "release_unacquired"
    /\ cpus_available' = release_cpus(cpus_available, req[r].data.vcpus)
    /\ req' = [req EXCEPT ![r].pc = "offload"]
    /\ UNCHANGED <<pipeline_vars, nodes, strategy, emergency, identity, in_emergency_area,
                   ctl, last>>


(***************************************************************************)
(* The retry loop of invoke and start_instance.  A run of the pipeline is  *)
(* two steps here: the creation of the microVM with the insertion of its   *)
(* record, and the rest of the run with its outcome.                       *)
(***************************************************************************)
\* the bodies a guest answers
GuestBodies == {"hello"}

invoke_give_up_mutant(r) ==
    /\ req[r].pc = "run"
    /\ req[r].retries >= max_retries
    /\ cpus_available' = release_cpus(cpus_available, req[r].data.vcpus)
    /\ req' = [req EXCEPT ![r].pc = "done", ![r].resp = FailedToStart,
                          ![r].held = @ - req[r].data.vcpus]
    /\ UNCHANGED <<pipeline_vars, nodes, strategy, emergency, identity, in_emergency_area,
                   ctl, last>>

\* if retries > max_retries: release the cpus and answer 500
invoke_give_up(r) ==
    /\ req[r].pc = "run"
    /\ req[r].retries > max_retries
    /\ cpus_available' = release_cpus(cpus_available, req[r].data.vcpus)
    /\ req' = [req EXCEPT ![r].pc = "done", ![r].resp = FailedToStart,
                          ![r].held = @ - req[r].data.vcpus]
    /\ UNCHANGED <<pipeline_vars, nodes, strategy, emergency, identity, in_emergency_area,
                   ctl, last>>

\* how the first part of start_instance can end
CreateOutcomes == {"inserted", "InstanceCreation", "Database"}

\* start_instance: builder.new_instance(..), then instance.insert(..)
start_instance_create(r, outcome) ==
    /\ req[r].pc = "run"
    /\ req[r].retries <= max_retries
    /\ req' = [req EXCEPT ![r] =
         IF outcome = "inserted"
         THEN [@ EXCEPT !.pc = "pipeline", !.runs = @ + 1, !.records = @ + 1]
         ELSE \* Err(InstanceError::InstanceCreation), or the insertion
              \* fails: emergency_cleanup and Err(InstanceError::Database)
              [@ EXCEPT !.runs = @ + 1, !.retries = @ + 1]]
    /\ UNCHANGED <<pipeline_vars, nodes, strategy, emergency, identity, in_emergency_area,
                   cpus_available, ctl, last>>

\* start_instance returns Err after emergency_cleanup: retries += 1
start_instance_err(r) ==
    /\ req[r].pc = "pipeline"
    /\ req' = [req EXCEPT ![r].pc = "run", ![r].retries = @ + 1]
    /\ UNCHANGED <<pipeline_vars, nodes, strategy, emergency, identity, in_emergency_area,
                   cpus_available, ctl, last>>

\* start_instance returns Ok(body): release the cpus and answer 200
start_instance_ok(r, body) ==
    /\ req[r].pc = "pipeline"
    /\ cpus_available' = release_cpus(cpus_available, req[r].data.vcpus)
    /\ req' = [req EXCEPT ![r].pc = "done", ![r].resp = Ok(body),
                          ![r].held = @ - req[r].data.vcpus]
    /\ UNCHANGED <<pipeline_vars, nodes, strategy, emergency, identity, in_emergency_area,
                   ctl, last>>

(***************************************************************************)
(* Orchestrator::offload                                                   *)
(***************************************************************************)
\* the end of one iteration of `for i in 0..self.number_of_nodes()`
\* (a `continue`, or the end of the body): the next iteration, or the
\* answer after the loop
next_iteration(rq) ==
    IF rq.i + 1 < rq.n
    THEN [rq EXCEPT !.pc = "lookup", !.i = @ + 1, !.node = None]
    ELSE [rq EXCEPT !.pc = "done", !.node = None,
                    !.resp = InsufficientResources]

\* self.number_of_nodes(), under the read lock of the registry
offload_begin(r) ==
    /\ req[r].pc = "offload"
    /\ ~registry_locked
    /\ LET n == number_of_nodes(nodes)
       IN req' = [req EXCEPT ![r] =
            IF n > 0
            THEN [@ EXCEPT !.pc = "lookup", !.n = n, !.i = 0,
                           !.steady = unmasked(nodes)]
            ELSE [@ EXCEPT !.pc = "done", !.n = n, !.steady = unmasked(nodes),
                           !.resp = InsufficientResources]]
    /\ UNCHANGED <<pipeline_vars, nodes, strategy, emergency, identity, in_emergency_area,
                   cpus_available, ctl, last>>

\* node.reveal().address().contains(req.peer_addr().ip().to_string())
same_origin(address, src) == contains(address, src)

\* Orchestrator::get_remote_nth_node(identity, index): the registry after
\* the call, which sorts it under SimpleCellular
get_remote_nth_node_sorted(ns, strat, em, ident, obs) ==
    IF strat = "SimpleCellular" THEN sort(ns, strat, em, ident, obs) ELSE ns

\* Orchestrator::get_remote_nth_node(identity, i), under the write lock of
\* the registry, then the check of the origin
offload_lookup(r) ==
    /\ req[r].pc = "lookup"
    /\ ~registry_locked
    /\ \E obs \in Observations(strategy, Len(nodes)) :
          nodes' = get_remote_nth_node_sorted(nodes, strategy, emergency,
                                              identity, obs)
    /\ LET node == get_nth(nodes', req[r].i)
       IN req' = [req EXCEPT ![r] =
            IF node = None
            THEN \* None => break
                 [@ EXCEPT !.pc = "done", !.resp = InsufficientResources]
            ELSE IF same_origin(node.address, req[r].src)
            THEN next_iteration([@ EXCEPT !.skipped =
                                    Append(@, node.address)])
            ELSE [@ EXCEPT !.pc = "probe", !.node = node.address]]
    /\ UNCHANGED <<pipeline_vars, strategy, emergency, identity, in_emergency_area,
                   cpus_available, ctl, last>>

\* remote_resources.cpus.checked_sub(cpus as usize) and
\* remote_resources.memory.checked_sub((memory * 1024) as usize) are both
\* Some
enough_resources(resources, data) ==
    /\ resources.cpus >= data.vcpus
    /\ as_usize_le(i32_mul_1024(data.memory), resources.memory)

\* GET http://<node>/resources: the request fails, the answer cannot be
\* decoded, or the answer is `answer`
offload_probe(r, answer) ==
    /\ req[r].pc = "probe"
    /\ req' = [req EXCEPT ![r] =
         LET rq == [@ EXCEPT !.probed = Append(@, req[r].node)]
         IN IF answer \in {SendError, JsonError}
            THEN next_iteration(rq)
            ELSE IF enough_resources(answer, req[r].data)
            THEN [rq EXCEPT !.pc = "forward", !.resources = answer]
            ELSE next_iteration(rq)]
    /\ UNCHANGED <<pipeline_vars, nodes, strategy, emergency, identity, in_emergency_area,
                   cpus_available, ctl, last>>

\* the bodies a peer answers to a forwarded request
PeerBodies == {"pong"}

\* NeighborNodeType::invoke: the JSON body posted to http://<node>/invoke
forwarded_request(data) == data

offload_forward_mutant(r, answer) ==
    /\ req[r].pc = "forward"
    /\ req' = [req EXCEPT ![r] =
         LET rq == [@ EXCEPT !.resources = None, !.forwards =
                      Append(@, [to |-> req[r].node,
                                 data |-> forwarded_request(req[r].data),
                                 resources |-> req[r].resources,
                                 result |-> answer])]
         IN IF answer = InvokeError
            THEN [rq EXCEPT !.pc = "done", !.node = None,
                            !.resp = InsufficientResources]
            ELSE [rq EXCEPT !.pc = "done", !.resp = Ok(answer)]]
    /\ UNCHANGED <<pipeline_vars, nodes, strategy, emergency, identity, in_emergency_area,
                   cpus_available, ctl, last>>

\* node.invoke(data.clone()): the peer answers 200 with the body `answer`,
\* or the result is Err(InvokeError)
offload_forward(r, answer) ==
    /\ req[r].pc = "forward"
    /\ req' = [req EXCEPT ![r] =
         LET rq == [@ EXCEPT !.resources = None, !.forwards =
                      Append(@, [to |-> req[r].node,
                                 data |-> forwarded_request(req[r].data),
                                 resources |-> req[r].resources,
                                 result |-> answer])]
         IN IF answer = InvokeError
            THEN next_iteration(rq)
            ELSE [rq EXCEPT !.pc = "done", !.resp = Ok(answer)]]
    /\ UNCHANGED <<pipeline_vars, nodes, strategy, emergency, identity, in_emergency_area,
                   cpus_available, ctl, last>>


(***************************************************************************)
(* emergency_controller (main.rs) and Orchestrator::set_emergency.  The    *)
(* controller holds the write lock of the registry from the first step of  *)
(* set_emergency to its last.                                              *)
(***************************************************************************)
\* a peer that is masked during an offload is not available for the whole
\* of it
note_masks(rs, ns) ==
    [r \in DOMAIN rs |->
        IF rs[r].pc \in {"lookup", "probe", "forward"}
        THEN [rs[r] EXCEPT !.steady = @ \cap unmasked(ns)]
        ELSE rs[r]]

\* START_EMERGENCY(em_pos): set_emergency(true, em_pos) takes the write lock
\* and calls lock.set_emergency(em_pos)
set_emergency_start(em_pos) ==
    /\ ctl.pc = "idle"
    /\ NeighborNodeList_set_emergency(em_pos)
    /\ ctl' = [pc |-> "start", em |-> em_pos]
    /\ req' = note_masks(req, nodes')
    /\ UNCHANGED <<pipeline_vars, strategy, identity, in_emergency_area, cpus_available, last>>

\* if self.get_identity().distance(&mut em_pos) <= radius
in_emergency_zone(ident, em_pos) ==
    distance(ident.position, em_pos.position) <= em_pos.radius

\* the rest of set_emergency(true, em_pos): the node is in the zone and
\* in_emergency_area is set, and the lock is dropped
set_emergency_inside ==
    /\ ctl.pc = "start"
    /\ in_emergency_zone(identity, ctl.em)
    /\ in_emergency_area' = TRUE
    /\ ctl' = [pc |-> "idle", em |-> None]
    /\ UNCHANGED <<pipeline_vars, nodes, strategy, emergency, identity, cpus_available, req, last>>

\* the rest of set_emergency(true, em_pos): the node is outside the zone,
\* and the lock is dropped
set_emergency_outside ==
    /\ ctl.pc = "start"
    /\ ~in_emergency_zone(identity, ctl.em)
    /\ ctl' = [pc |-> "idle", em |-> None]
    /\ UNCHANGED <<pipeline_vars, nodes, strategy, emergency, identity, in_emergency_area,
                   cpus_available, req, last>>

\* STOP_EMERGENCY: set_emergency(false, _) takes the write lock and calls
\* lock.clear_emergency()
set_emergency_stop ==
    /\ ctl.pc = "idle"
    /\ NeighborNodeList_clear_emergency
    /\ ctl' = [pc |-> "stop", em |-> None]
    /\ UNCHANGED <<pipeline_vars, strategy, identity, in_emergency_area, cpus_available, req, last>>

\* the rest of set_emergency(false, _): in_emergency_area is reset, and the
\* lock is dropped
set_emergency_leave ==
    /\ ctl.pc = "stop"
    /\ in_emergency_area' = FALSE
    /\ ctl' = [pc |-> "idle", em |-> None]
    /\ UNCHANGED <<pipeline_vars, nodes, strategy, emergency, identity, cpus_available, req, last>>

(***************************************************************************)
(* Orchestrator::set_emergency lock by lock: the write lock of the         *)
(* registry is taken first and held to the end; the mutex of               *)
(* in_emergency_area is taken, the flag stored and both are dropped.       *)
(***************************************************************************)
\* self.in_emergency_area.lock().unwrap(), under the write lock
set_emergency_area_lock ==
    /\ \/ ctl.pc = "start" /\ in_emergency_zone(identity, ctl.em)
       \/ ctl.pc = "stop"
    /\ ctl' = [ctl EXCEPT !.pc = IF ctl.pc = "start" THEN "start_area"
                                 ELSE "stop_area"]
    /\ UNCHANGED <<pipeline_vars, nodes, strategy, emergency, identity,
                   in_emergency_area, cpus_available, req, last>>

\* *.. = true or *.. = false, and the end of set_emergency: the guards of
\* the mutex and of the registry are dropped
set_emergency_area_store ==
    /\ ctl.pc \in {"start_area", "stop_area"}
    /\ in_emergency_area' = (ctl.pc = "start_area")
    /\ ctl' = [pc |-> "idle", em |-> None]
    /\ UNCHANGED <<pipeline_vars, nodes, strategy, emergency, identity,
                   cpus_available, req, last>>

\* the mutex of in_emergency_area is held by the emergency controller
area_locked == ctl.pc \in {"start_area", "stop_area"}

\* the locks of the orchestrator that the emergency controller holds
controller_locks ==
    (IF registry_locked THEN {"global_resources"} ELSE {})
    \cup (IF area_locked THEN {"in_emergency_area"} ELSE {})

\* the locks a handler holds between two of its steps: in_emergency_area(),
\* check_and_acquire_resources, release_resources, number_of_nodes,
\* get_remote_nth_node and the block of new_instance each take one lock and
\* drop it before they return
handler_locks(r) == {}

(***************************************************************************)
(* The invocation pipeline: start_instance (endpoints.rs) with             *)
(* FirecrackerBuilder, FirecrackerInstance, Addresses and Instance.  Every *)
(* .await of start_instance ends a step.  A call whose Result the code     *)
(* matches or discards has both outcomes; a call whose Result the code     *)
(* unwraps succeeds.                                                       *)
(***************************************************************************)
\* network.size(): the addresses of the guest network, numbered from 0
NetworkSize == 8
\* endpoints.rs: let max_retries = 100, of the loop that reads the greeting
handshake_max_retries == 100
\* the WouldBlock answers that come one at a time during one handshake
MaxWouldBlock == 1

\* Addresses::new
Addresses_new == [available |-> <<>>, last_assigned |-> 1, filter |-> {}]

\* Addresses::get, the loop `while let Some(ip) = self.network.nth(i)` from
\* index i: the index it ends at, or that no address is left
RECURSIVE get_scan(_, _)
get_scan(filter, i) ==
    IF i >= NetworkSize \/ i \notin filter
    THEN [i |-> i, exhausted |-> FALSE]
    ELSE IF i + 1 >= NetworkSize - 1
    THEN [i |-> i + 1, exhausted |-> TRUE]
    ELSE get_scan(filter, i + 1)

Addresses_get_mutant(nw) ==
    IF nw.available = <<>>
    THEN LET s == get_scan(nw.filter, nw.last_assigned + 1)
         IN IF s.exhausted
            THEN [ip |-> None, panic |-> FALSE,
                  network |-> [nw EXCEPT !.last_assigned = 1]]
            ELSE IF s.i >= NetworkSize
            THEN [ip |-> None, panic |-> TRUE, network |-> nw]
            ELSE [ip |-> Some(s.i), panic |-> FALSE,
                  network |-> [nw EXCEPT !.last_assigned = s.i,
                                         !.filter = @ \cup {s.i}]]
    ELSE LET ip == nw.available[Len(nw.available)]
         IN [ip |-> Some(ip), panic |-> FALSE,
             network |-> [nw EXCEPT !.filter = @ \cup {ip}]]

\* Addresses::get: the address returned, the pool afterwards, and whether
\* self.network.nth(i).unwrap() panics
Addresses_get(nw) ==
    IF nw.available = <<>>
    THEN LET s == get_scan(nw.filter, nw.last_assigned + 1)
         IN IF s.exhausted
            THEN [ip |-> None, panic |-> FALSE,
                  network |-> [nw EXCEPT !.last_assigned = 1]]
            ELSE IF s.i >= NetworkSize
            THEN [ip |-> None, panic |-> TRUE, network |-> nw]
            ELSE [ip |-> Some(s.i), panic |-> FALSE,
                  network |-> [nw EXCEPT !.last_assigned = s.i,
                                         !.filter = @ \cup {s.i}]]
    ELSE LET ip == nw.available[Len(nw.available)]
         IN [ip |-> Some(ip), panic |-> FALSE,
             network |-> [nw EXCEPT
                 !.available = SubSeq(@, 1, Len(@) - 1),
                 !.filter = @ \cup {ip}]]

Addresses_release_mutant(nw, ip) ==
    [nw EXCEPT !.available = <<ip>> \o @, !.filter = @ \ {ip}]

\* Addresses::release
Addresses_release(nw, ip) ==
    [nw EXCEPT !.available = Append(@, ip), !.filter = @ \ {ip}]

\* the ASCII text "ready"
READY == <<"r", "e", "a", "d", "y">>

\* what a guest sends on the stream before it waits for the payload
Greetings ==
    {READY, <<"x">> \o READY, SubSeq(READY, 1, 4), <<"h", "e", "l", "l", "o">>}

\* an accepted stream: the bytes the guest sends, and whether it closes the
\* stream after them
Connections == [pending : Greetings, closed : BOOLEAN]

\* the locals of start_instance before a run
IdleRun ==
    [address |-> None,      \* fc_instance.get_address()
     fc |-> 0,              \* fc_instance: its index in machines
     instance |-> None,     \* instance: its id and status
     stream |-> None,       \* stream: what remains to be read
     buf |-> <<>>,          \* buf, up to its last byte written
     bytes_read |-> 0,
     retries |-> 0,
     body |-> None,         \* the response read
     error |-> None,        \* the InstanceError to return
     \* history of the run
     greeting |-> None,     \* the bytes the guest sent on the stream
     handshake |-> "none",  \* "ok", "mismatch": how the check of buf ended
     \* history of the request
     handshakes |-> 0,      \* runs that passed the check of the greeting
     late |-> 0]            \* runs made when a run first failed after it

\* FirecrackerBuilder::new and the empty table
PipelineInit(handlers) ==
    /\ network = Addresses_new
    /\ machines = <<>>
    /\ instances = <<>>
    /\ run = [r \in handlers |-> IdleRun]
    /\ io = None
    /\ sock = None
    /\ held = <<>>
    /\ guest = None
    /\ chain = None
    /\ legacy = None
    /\ ice = None

\* the locals after a run: only the history of the request is kept
end_of_run(rn) ==
    [IdleRun EXCEPT !.handshakes = rn.handshakes, !.late = rn.late]

\* how FirecrackerInstance::new can end
CreationOutcomes == {"Ok", "TapCreate", "BridgeAttach", "Executor", "MachineCreate"}

\* builder.new_instance(..): FirecrackerBuilder::new_instance takes an
\* address and calls FirecrackerInstance::new; on Err start_instance
\* returns Err(InstanceCreation) and invoke counts a retry
new_instance(r, outcome) ==
    /\ req[r].pc = "run"
    /\ req[r].retries <= max_retries
    /\ LET g == Addresses_get(network)
           failed == [req EXCEPT ![r].runs = @ + 1, ![r].retries = @ + 1]
       IN IF g.panic
          THEN /\ req' = [req EXCEPT ![r].pc = "panicked", ![r].runs = @ + 1]
               /\ UNCHANGED <<network, machines, run>>
          ELSE IF g.ip = None
          THEN /\ network' = g.network
               /\ req' = failed
               /\ UNCHANGED <<machines, run>>
          ELSE IF outcome = "TapCreate"
          THEN /\ network' = g.network
               /\ req' = failed
               /\ UNCHANGED <<machines, run>>
          ELSE IF outcome # "Ok"
          THEN \* the TAP exists; the bridge, the executor or the
               \* machine fails
               /\ network' = g.network
               /\ machines' = Append(machines,
                     [ip |-> g.ip[1], tap |-> "up", vm |-> "none",
                      ended |-> "Failed"])
               /\ req' = failed
               /\ UNCHANGED run
          ELSE /\ network' = g.network
               /\ machines' = Append(machines,
                     [ip |-> g.ip[1], tap |-> "up", vm |-> "created",
                      ended |-> "no"])
               /\ run' = [run EXCEPT ![r].address = g.ip,
                                     ![r].fc = Len(machines) + 1]
               /\ req' = [req EXCEPT ![r].pc = "insert", ![r].runs = @ + 1]
    /\ UNCHANGED <<io_vars, nodes, strategy, emergency, identity,
                   in_emergency_area,
                   cpus_available, ctl, last, instances>>

\* Instance::new: status "started", id 0
Instance_new == [id |-> 0, status |-> "started"]

\* Instance::set_status
set_status(instance, status) == [instance EXCEPT !.status = status]

\* Instance::update: UPDATE instances SET status = .. WHERE id = ..
Instance_update(rows, instance) ==
    [k \in DOMAIN rows |->
        IF rows[k].id = instance.id
        THEN [rows[k] EXCEPT !.status = instance.status]
        ELSE rows[k]]

\* the results of a call that succeeds or fails
Results == {"Ok", "Err"}

\* an error before the end of the pipeline: emergency_cleanup, and the
\* InstanceError that start_instance returns after it
fail(rn, error) == [rn EXCEPT !.error = Some(error)]

\* instance.insert(db_pool): the row gets the next id of the table
instance_insert(r, result) ==
    /\ req[r].pc = "insert"
    /\ IF result = "Ok"
       THEN /\ instances' = Append(instances,
                  [id |-> Len(instances) + 1, status |-> "started",
                   fc |-> run[r].fc])
            /\ run' = [run EXCEPT ![r].instance =
                  [Instance_new EXCEPT !.id = Len(instances) + 1]]
            /\ req' = [req EXCEPT ![r].pc = "vsock", ![r].records = @ + 1]
       ELSE /\ run' = [run EXCEPT ![r] =
                  fail([@ EXCEPT !.instance = Instance_new],
                       "InstanceError::Database")]
            /\ req' = [req EXCEPT ![r].pc = "cleanup"]
            /\ UNCHANGED instances
    /\ UNCHANGED <<io_vars, nodes, strategy, emergency, identity,
                   in_emergency_area,
                   cpus_available, ctl, last, network, machines>>

\* the vsock path exists; UnixListener::bind(path + "_1234")
vsock_bind(r, result) ==
    /\ req[r].pc = "vsock"
    /\ IF result = "Ok"
       THEN /\ req' = [req EXCEPT ![r].pc = "start"]
            /\ UNCHANGED run
       ELSE /\ run' = [run EXCEPT ![r] = fail(@, "InstanceError::VSockCreation")]
            /\ req' = [req EXCEPT ![r].pc = "cleanup"]
    /\ UNCHANGED <<io_vars, nodes, strategy, emergency, identity,
                   in_emergency_area,
                   cpus_available, ctl, last, network, machines, instances>>

instance_start_mutant(r, result) ==
    /\ req[r].pc = "vsock"
    /\ result = "Ok"
    /\ machines' = [machines EXCEPT ![run[r].fc].vm = "running"]
    /\ req' = [req EXCEPT ![r].pc = "accept"]
    /\ UNCHANGED <<io_vars, nodes, strategy, emergency, identity,
                   in_emergency_area,
                   cpus_available, ctl, last, network, instances, run>>

\* fc_instance.start()
instance_start(r, result) ==
    /\ req[r].pc = "start"
    /\ IF result = "Ok"
       THEN /\ machines' = [machines EXCEPT ![run[r].fc].vm = "running"]
            /\ req' = [req EXCEPT ![r].pc = "accept"]
            /\ UNCHANGED run
       ELSE /\ run' = [run EXCEPT ![r] = fail(@, "InstanceError::InstanceStart")]
            /\ req' = [req EXCEPT ![r].pc = "cleanup"]
            /\ UNCHANGED machines
    /\ UNCHANGED <<io_vars, nodes, strategy, emergency, identity,
                   in_emergency_area,
                   cpus_available, ctl, last, network, instances>>

\* accept fails, or no guest connects within 500 ms
AcceptError == [error |-> "InstanceError::VSock"]
AcceptTimeout == [error |-> "InstanceError::VSockTimeout"]

\* timeout(500 ms, socket.accept())
socket_accept(r, conn) ==
    /\ req[r].pc = "accept"
    /\ IF conn \in {AcceptError, AcceptTimeout}
       THEN /\ run' = [run EXCEPT ![r] = fail(@, conn.error)]
            /\ req' = [req EXCEPT ![r].pc = "cleanup"]
       ELSE /\ run' = [run EXCEPT ![r].stream = conn,
                                  ![r].greeting = conn.pending]
            /\ req' = [req EXCEPT ![r].pc = "handshake"]
    /\ UNCHANGED <<io_vars, nodes, strategy, emergency, identity,
                   in_emergency_area,
                   cpus_available, ctl, last, network, machines, instances>>

\* stream.try_read(&mut buf.as_mut()) that returns n bytes: they are written
\* from the start of buf
try_read_into(buf, bytes) ==
    bytes \o SubSeq(buf, Len(bytes) + 1, Len(buf))

\* message.contains("ready"), message being the text of the whole buf
message_ready(buf) == contains(buf, READY)

\* what one turn of the loop can meet on a stream: stream.readable() fails,
\* try_read fails, try_read answers WouldBlock `n` times in a row, or
\* try_read returns n bytes (0 at the end of a closed stream)
HandshakeReads(stream, retries) ==
    {[kind |-> k, n |-> 0] : k \in {"NotReadable", "Err"}}
    \cup (IF retries < MaxWouldBlock
          THEN {[kind |-> "WouldBlock", n |-> 1]} ELSE {})
    \cup {[kind |-> "WouldBlock", n |-> handshake_max_retries + 1]}
    \cup {[kind |-> "Ok", n |-> n] : n \in
             (IF stream.pending = <<>> /\ stream.closed THEN {0} ELSE {})
             \cup 1..Len(stream.pending)}

\* one turn of the loop that reads the greeting, and after its break the
\* check of the message
handshake_read(r) ==
    /\ req[r].pc = "handshake"
    /\ \E read \in HandshakeReads(run[r].stream, run[r].retries) :
        LET rn == run[r]
            bytes == SubSeq(rn.stream.pending, 1, read.n)
            buf == try_read_into(rn.buf, bytes)
            got == [rn EXCEPT !.buf = buf, !.bytes_read = @ + read.n,
                      !.stream.pending =
                          SubSeq(@, read.n + 1, Len(@))]
        IN IF rn.retries > handshake_max_retries
           THEN /\ run' = [run EXCEPT ![r] =
                      fail(rn, "InstanceError::VSockTimeout")]
                /\ req' = [req EXCEPT ![r].pc = "cleanup"]
           ELSE IF read.kind \in {"NotReadable", "Err"}
           THEN /\ run' = [run EXCEPT ![r] = fail(rn, "InstanceError::VSock")]
                /\ req' = [req EXCEPT ![r].pc = "cleanup"]
           ELSE IF read.kind = "WouldBlock"
           THEN /\ run' = [run EXCEPT ![r].retries =
                      Min(@ + read.n, handshake_max_retries + 1)]
                /\ UNCHANGED req
           ELSE IF read.n # 0 /\ got.bytes_read # 5
           THEN /\ run' = [run EXCEPT ![r] = got]
                /\ UNCHANGED req
           ELSE IF message_ready(buf)
           THEN /\ run' = [run EXCEPT ![r] =
                      [got EXCEPT !.handshake = "ok",
                                  !.handshakes = @ + 1]]
                /\ req' = [req EXCEPT ![r].pc = "payload"]
           ELSE /\ run' = [run EXCEPT ![r] =
                      fail([got EXCEPT !.handshake = "mismatch"],
                           "InstanceError::VSock")]
                /\ req' = [req EXCEPT ![r].pc = "cleanup"]
    /\ UNCHANGED <<io_vars, nodes, strategy, emergency, identity,
                   in_emergency_area,
                   cpus_available, ctl, last, network, machines, instances>>

\* the length and the payload are written to the stream, or
\* stream.writable() or try_write fails
write_payload(r, result) ==
    /\ req[r].pc = "payload"
    /\ IF result = "Ok"
       THEN /\ req' = [req EXCEPT ![r].pc = "response"]
            /\ UNCHANGED run
       ELSE /\ run' = [run EXCEPT ![r] = fail(@, "InstanceError::VSock")]
            /\ req' = [req EXCEPT ![r].pc = "cleanup"]
    /\ UNCHANGED <<io_vars, nodes, strategy, emergency, identity,
                   in_emergency_area,
                   cpus_available, ctl, last, network, machines, instances>>

\* stream.readable() or try_read fails while the response is read
ReadError == "InstanceError::VSock"

\* the length and the body of the response are read from the stream
read_response(r, body) ==
    /\ req[r].pc = "response"
    /\ IF body # ReadError
       THEN /\ run' = [run EXCEPT ![r].body = Some(body)]
            /\ req' = [req EXCEPT ![r].pc = "stop"]
       ELSE /\ run' = [run EXCEPT ![r] = fail(@, ReadError)]
            /\ req' = [req EXCEPT ![r].pc = "cleanup"]
    /\ UNCHANGED <<io_vars, nodes, strategy, emergency, identity,
                   in_emergency_area,
                   cpus_available, ctl, last, network, machines, instances>>

\* FirecrackerInstance::stop: machine.stop()
FirecrackerInstance_stop(m, result) ==
    IF result = "Ok" THEN [m EXCEPT !.vm = "stopped"] ELSE m

\* FirecrackerInstance::delete: self.machine.kill().await?, then
\* self.tap.remove()
FirecrackerInstance_delete(m, result) ==
    IF result = "Ok" THEN [m EXCEPT !.vm = "killed", !.tap = "removed"] ELSE m

\* let _ = fc_instance.stop().await; let _ = fc_instance.delete().await
instance_stop_delete(r, stopped, killed) ==
    /\ req[r].pc = "stop"
    /\ machines' = [machines EXCEPT ![run[r].fc] =
          FirecrackerInstance_delete(FirecrackerInstance_stop(@, stopped),
                                     killed)]
    /\ req' = [req EXCEPT ![r].pc = "terminated"]
    /\ UNCHANGED <<io_vars, nodes, strategy, emergency, identity,
                   in_emergency_area,
                   cpus_available, ctl, last, network, instances, run>>

\* instance.set_status("terminated"), let _ = instance.update(..), the
\* release of the address and Ok(bytes); invoke releases the cpus and
\* answers 200
instance_terminated(r, updated) ==
    /\ req[r].pc = "terminated"
    /\ instances' =
          IF updated = "Ok"
          THEN Instance_update(instances,
                               set_status(run[r].instance, "terminated"))
          ELSE instances
    /\ network' = Addresses_release(network, run[r].address[1])
    /\ machines' = [machines EXCEPT ![run[r].fc].ended = "Terminated"]
    /\ run' = [run EXCEPT ![r] = [end_of_run(@) EXCEPT !.body = run[r].body]]
    /\ cpus_available' = release_cpus(cpus_available, req[r].data.vcpus)
    /\ req' = [req EXCEPT ![r].pc = "done", ![r].resp = Ok(run[r].body[1]),
                          ![r].held = @ - req[r].data.vcpus]
    /\ UNCHANGED <<io_vars, nodes, strategy, emergency, identity,
                   in_emergency_area,
                   ctl, last>>

\* emergency_cleanup: instance.set_status("failed") and
\* let _ = instance.update(..)
emergency_cleanup_status(r, updated) ==
    /\ req[r].pc = "cleanup"
    /\ run' = [run EXCEPT ![r].instance = set_status(@, "failed")]
    /\ instances' =
          IF updated = "Ok"
          THEN Instance_update(instances, run'[r].instance)
          ELSE instances
    /\ req' = [req EXCEPT ![r].pc = "cleanup_delete"]
    /\ UNCHANGED <<io_vars, nodes, strategy, emergency, identity,
                   in_emergency_area,
                   cpus_available, ctl, last, network, machines>>

\* emergency_cleanup: let _ = fc_instance.delete() and the release of the
\* address; start_instance returns the Err and invoke counts a retry
emergency_cleanup_delete(r, killed) ==
    /\ req[r].pc = "cleanup_delete"
    /\ machines' = [machines EXCEPT ![run[r].fc] =
          [FirecrackerInstance_delete(@, killed) EXCEPT !.ended = "Failed"]]
    /\ network' = Addresses_release(network, run[r].address[1])
    /\ run' = [run EXCEPT ![r] =
          end_of_run([@ EXCEPT !.late =
              IF @ = 0 /\ run[r].handshake = "ok" THEN req[r].runs ELSE @])]
    /\ req' = [req EXCEPT ![r].pc = "run", ![r].retries = @ + 1]
    /\ UNCHANGED <<io_vars, nodes, strategy, emergency, identity,
                   in_emergency_area,
                   cpus_available, ctl, last, instances>>

(***************************************************************************)
(* start_instance from the payload to the response, byte by byte: the      *)
(* length and the payload written with try_write, the length and the body  *)
(* of the response read with try_read.  A byte is a number in 0..255, a    *)
(* text the sequence of its bytes.                                         *)
(***************************************************************************)
\* the length of the longest payload: it needs two bytes
LongPayload == 256

\* the `width` low bytes of n, the most significant first
RECURSIVE be_bytes(_, _)
be_bytes(n, width) ==
    IF width = 0 THEN <<>>
    ELSE Append(be_bytes(n \div 256, width - 1), n % 256)

to_be_bytes_mutant(n) == [k \in 1..8 |-> be_bytes(n, 8)[9 - k]]
\* usize::to_be_bytes
to_be_bytes(n) == be_bytes(n, 8)

\* u64::from_be_bytes(len) as usize
RECURSIVE from_be_bytes(_)
from_be_bytes(bytes) ==
    IF bytes = <<>> THEN 0
    ELSE from_be_bytes(SubSeq(bytes, 1, Len(bytes) - 1)) * 256
         + bytes[Len(bytes)]

\* [0; n] and vec![0; n]
zeros(n) == [k \in 1..n |-> 0]

\* data.payload: none, "", "abc" and a text of LongPayload bytes
Payloads ==
    {None, Some(<<>>), Some(<<97, 98, 99>>),
     Some([k \in 1..LongPayload |-> 97])}

\* the bodies a guest answers with
ResponseBodies == {<<>>, <<104>>, <<104, 105>>}

\* what a guest sends before it stops sending: the length and the body of a
\* response, or the first bytes of them; then it closes the stream or keeps
\* it open
GuestStreams ==
    [pending : UNION {{SubSeq(be_bytes(Len(b), 8) \o b, 1, k) :
                          k \in 0..(8 + Len(b))} : b \in ResponseBodies},
     closed : BOOLEAN]

\* the handshake passed: match &data.payload
payload_begin(payload, incoming) ==
    /\ io = None
    /\ io' = [pc |-> "payload",
              payload |-> payload,
              buf |-> <<>>,            \* the bytes being written or read
              bytes_written |-> 0,
              len |-> zeros(8),
              bytes_read |-> 0,
              stream |-> incoming,     \* what remains to be read
              error |-> None,
              \* history: the bytes the stream accepted, the bytes read
              sent |-> <<>>,
              received |-> <<>>]
    /\ UNCHANGED <<nodes, strategy, emergency, identity, in_emergency_area,
                   cpus_available, ctl, req, last, network, machines,
                   instances, run, sock, held, guest, chain, legacy, ice>>

\* an error on the stream: emergency_cleanup and Err(InstanceError::VSock)
io_fail(s) == [s EXCEPT !.pc = "cleanup", !.error = Some("InstanceError::VSock")]

\* the response is awaited: let mut len = [0; 8]; let mut bytes_read = 0
payload_sent(s) ==
    [s EXCEPT !.pc = "response", !.len = zeros(8), !.bytes_read = 0]

\* stream.try_write(&buf[bytes_written..]): WouldBlock, an error, or the
\* stream accepts the first n bytes of the slice
TryWrites(buf, bytes_written) ==
    {[kind |-> k, n |-> 0] : k \in {"WouldBlock", "Err"}}
    \cup {[kind |-> "Ok", n |-> n] : n \in 1..(Len(buf) - bytes_written)}

\* Ok(n) => bytes_written += n
try_write(s, n) ==
    [s EXCEPT !.sent = @ \o SubSeq(s.buf, s.bytes_written + 1,
                                   s.bytes_written + n),
              !.bytes_written = @ + n]

\* stream.writable().await before the length: buf holds len.to_be_bytes(),
\* or [0; 8] without a payload
payload_writable(result) ==
    /\ io # None
    /\ io.pc = "payload"
    /\ io' = IF result = "Ok"
             THEN [io EXCEPT !.pc = "write_len",
                             !.buf = IF io.payload = None THEN zeros(8)
                                     ELSE to_be_bytes(Len(io.payload[1])),
                             !.bytes_written = 0]
             ELSE io_fail(io)
    /\ UNCHANGED <<nodes, strategy, emergency, identity, in_emergency_area,
                   cpus_available, ctl, req, last, network, machines,
                   instances, run, sock, held, guest, chain, legacy, ice>>

\* one turn of while bytes_written < 8
write_payload_len ==
    /\ io # None
    /\ io.pc = "write_len"
    /\ \E w \in TryWrites(io.buf, io.bytes_written) :
       io' = IF w.kind = "Err" THEN io_fail(io)
             ELSE IF w.kind = "WouldBlock" THEN io
             ELSE LET s == try_write(io, w.n)
                  IN IF s.bytes_written < 8 THEN s
                     ELSE IF io.payload = None THEN payload_sent(s)
                     ELSE [s EXCEPT !.pc = "payload_body"]
    /\ UNCHANGED <<nodes, strategy, emergency, identity, in_emergency_area,
                   cpus_available, ctl, req, last, network, machines,
                   instances, run, sock, held, guest, chain, legacy, ice>>

\* stream.writable().await before the payload: the slice is
\* payload.as_bytes()
payload_body_writable(result) ==
    /\ io # None
    /\ io.pc = "payload_body"
    /\ io' = IF result = "Ok"
             THEN LET s == [io EXCEPT !.buf = io.payload[1],
                                      !.bytes_written = 0]
                  IN IF 0 < Len(io.payload[1])
                     THEN [s EXCEPT !.pc = "write_body"]
                     ELSE payload_sent(s)
             ELSE io_fail(io)
    /\ UNCHANGED <<nodes, strategy, emergency, identity, in_emergency_area,
                   cpus_available, ctl, req, last, network, machines,
                   instances, run, sock, held, guest, chain, legacy, ice>>

\* one turn of while bytes_written < len
write_payload_bytes ==
    /\ io # None
    /\ io.pc = "write_body"
    /\ \E w \in TryWrites(io.buf, io.bytes_written) :
       io' = IF w.kind = "Err" THEN io_fail(io)
             ELSE IF w.kind = "WouldBlock" THEN io
             ELSE LET s == try_write(io, w.n)
                  IN IF s.bytes_written < Len(io.payload[1]) THEN s
                     ELSE payload_sent(s)
    /\ UNCHANGED <<nodes, strategy, emergency, identity, in_emergency_area,
                   cpus_available, ctl, req, last, network, machines,
                   instances, run, sock, held, guest, chain, legacy, ice>>

\* stream.readable().await and stream.try_read(&mut buf[bytes_read..]) on a
\* slice of `space` bytes: readable() fails, try_read fails or answers
\* WouldBlock, or it returns n bytes; 0 at the end of a closed stream, and
\* on an empty slice once the stream is readable
StreamReads(stream, space) ==
    {[kind |-> k, n |-> 0] : k \in {"NotReadable", "Err", "WouldBlock"}}
    \cup {[kind |-> "Ok", n |-> n] : n \in
             (IF \/ stream.pending = <<>> /\ stream.closed
                 \/ space = 0 /\ (stream.pending # <<>> \/ stream.closed)
              THEN {0} ELSE {})
             \cup 1..Min(Len(stream.pending), space)}

\* the n bytes read are written to buf from the index `at`
fill(buf, at, bytes) ==
    [k \in 1..Len(buf) |->
        IF k > at /\ k <= at + Len(bytes) THEN bytes[k - at] ELSE buf[k]]

\* the n first bytes leave the stream
consume(s, n) ==
    [s EXCEPT !.received = @ \o SubSeq(s.stream.pending, 1, n),
              !.stream.pending = SubSeq(@, n + 1, Len(@)),
              !.bytes_read = @ + n]

\* one turn of the loop that reads the length, and after its break
\* u64::from_be_bytes(len), vec![0; len] and the sleep of 10 ms
read_response_len ==
    /\ io # None
    /\ io.pc = "response"
    /\ \E rd \in StreamReads(io.stream, 8 - io.bytes_read) :
       io' = IF rd.kind \in {"NotReadable", "Err"} THEN io_fail(io)
             ELSE IF rd.kind = "WouldBlock" THEN io
             ELSE LET s == [consume(io, rd.n) EXCEPT !.len =
                               fill(@, io.bytes_read,
                                    SubSeq(io.stream.pending, 1, rd.n))]
                  IN IF rd.n # 0 /\ s.bytes_read # 8 THEN s
                     ELSE [s EXCEPT !.pc = "read_body",
                                    !.buf = zeros(from_be_bytes(s.len)),
                                    !.bytes_read = 0]
    /\ UNCHANGED <<nodes, strategy, emergency, identity, in_emergency_area,
                   cpus_available, ctl, req, last, network, machines,
                   instances, run, sock, held, guest, chain, legacy, ice>>

\* one turn of the loop that reads the body; after its break the instance
\* is stopped and Ok(Bytes::from(buf)) returned
read_response_body ==
    /\ io # None
    /\ io.pc = "read_body"
    /\ \E rd \in StreamReads(io.stream, Len(io.buf) - io.bytes_read) :
       io' = IF rd.kind \in {"NotReadable", "Err"} THEN io_fail(io)
             ELSE IF rd.kind = "WouldBlock" THEN io
             ELSE LET s == [consume(io, rd.n) EXCEPT !.buf =
                               fill(@, io.bytes_read,
                                    SubSeq(io.stream.pending, 1, rd.n))]
                  IN IF rd.n # 0 /\ s.bytes_read < Len(io.buf) THEN s
                     ELSE [s EXCEPT !.pc = "stop"]
    /\ UNCHANGED <<nodes, strategy, emergency, identity, in_emergency_area,
                   cpus_available, ctl, req, last, network, machines,
                   instances, run, sock, held, guest, chain, legacy, ice>>

(***************************************************************************)
(* utils/socket.rs: read_exact and write_all, one turn of their loop per   *)
(* step.  The stream of a call is silent (it never becomes ready), blocking *)
(* (it is ready and every try_read or try_write answers WouldBlock), or    *)
(* live (anything can happen at each turn).                                *)
(***************************************************************************)
\* the longest buffer, the longest deadline in ms, and the number of sleeps
\* the history keeps
MaxBufLen == 2
MaxDeadline == 5
MaxSleeps == 4

StreamKinds == {"silent", "blocking", "live"}

\* std::io::ErrorKind::TimedOut, "Timeout Reading!" / "Timeout Writing!"
TimedOut == "ErrorKind::TimedOut"
UnexpectedEof == "ErrorKind::UnexpectedEof"
OtherError == "ErrorKind::Other"

\* let mut total_read = 0; let mut delay = 2
socket_call(op, len, max_timeout, kind) ==
    /\ sock = None
    /\ sock' = [op |-> op, pc |-> "loop", len |-> len,
                max_timeout |-> max_timeout, stream |-> kind,
                total |-> 0, delay |-> 2, result |-> None,
                \* history: the delays slept, the first MaxSleeps of them,
                \* and whether the number of turns taken is odd
                sleeps |-> <<>>, odd |-> FALSE]
    /\ UNCHANGED <<nodes, strategy, emergency, identity, in_emergency_area,
                   cpus_available, ctl, req, last, network, machines,
                   instances, run, io, held, guest, chain, legacy, ice>>

\* what a turn of the loop meets: the timeout of readable() or writable()
\* expires, it fails, or the stream is ready and try_read or try_write
\* answers WouldBlock, fails, or returns n
Turns(s) ==
    IF s.stream = "silent" THEN {[kind |-> "Elapsed", n |-> 0]}
    ELSE IF s.stream = "blocking" THEN {[kind |-> "WouldBlock", n |-> 0]}
    ELSE {[kind |-> k, n |-> 0] :
              k \in {"Elapsed", "NotReady", "WouldBlock", "Err"}}
         \cup {[kind |-> "Ok", n |-> n] : n \in 0..(s.len - s.total)}

\* return Err(..) and Ok(())
returned(s, result) == [s EXCEPT !.pc = "returned", !.result = Some(result)]

backoff_mutant(s) ==
    [s EXCEPT !.sleeps = IF Len(@) < MaxSleeps THEN Append(@, s.delay) ELSE @,
              !.delay = s.delay * 2]

\* sleep(delay).await; delay = (delay * 2).min(max_timeout)
backoff(s) ==
    [s EXCEPT !.sleeps = IF Len(@) < MaxSleeps THEN Append(@, s.delay) ELSE @,
              !.delay = Min(s.delay * 2, s.max_timeout)]

\* one turn of the loop of read_exact, and of write_all
loop_turn(s, t) ==
    IF t.kind = "Elapsed"
    THEN IF s.delay > s.max_timeout THEN returned(s, TimedOut) ELSE s
    ELSE IF t.kind \in {"NotReady", "Err"} THEN returned(s, OtherError)
    ELSE IF t.kind = "WouldBlock" THEN backoff(s)
    ELSE IF t.n = 0
    THEN IF s.total < s.len THEN returned(s, UnexpectedEof)
         ELSE returned(s, "Ok")
    ELSE IF s.total + t.n = s.len
    THEN returned([s EXCEPT !.total = @ + t.n], "Ok")
    ELSE [s EXCEPT !.total = @ + t.n]

\* a turn is over and the call has not returned: the loop takes another one
next_turn(s) == IF s.pc = "loop" THEN [s EXCEPT !.odd = ~@] ELSE s

\* read_exact(stream, buf, max_timeout)
read_exact ==
    /\ sock # None
    /\ sock.op = "read_exact"
    /\ sock.pc = "loop"
    /\ \E t \in Turns(sock) : sock' = next_turn(loop_turn(sock, t))
    /\ UNCHANGED <<nodes, strategy, emergency, identity, in_emergency_area,
                   cpus_available, ctl, req, last, network, machines,
                   instances, run, io, held, guest, chain, legacy, ice>>

\* write_all(stream, buf, max_timeout)
write_all ==
    /\ sock # None
    /\ sock.op = "write_all"
    /\ sock.pc = "loop"
    /\ \E t \in Turns(sock) : sock' = next_turn(loop_turn(sock, t))
    /\ UNCHANGED <<nodes, strategy, emergency, identity, in_emergency_area,
                   cpus_available, ctl, req, last, network, machines,
                   instances, run, io, held, guest, chain, legacy, ice>>

(***************************************************************************)
(* The guest of a run, as start_instance meets it: a guest behaves in one  *)
(* way all along its run.                                                  *)
(***************************************************************************)
\* "absent": the vsock path never appears; "mute": the guest connects and
\* never writes; "deaf": it greets and never reads the payload; "quiet": it
\* reads the payload and never sends its response; "good": it does all of it
GuestKinds == {"absent", "mute", "deaf", "quiet", "good"}

\* the machine is created: its guest is one of GuestKinds
guest_boot(r, kind) ==
    /\ req[r].pc = "vsock"
    /\ guest = None
    /\ guest' = Some(kind)
    /\ UNCHANGED <<nodes, strategy, emergency, identity, in_emergency_area,
                   cpus_available, ctl, req, last, network, machines,
                   instances, run, io, sock, held, chain, legacy, ice>>

\* loop { if Path::new(&path).exists() { break; } sleep(10 ms) } and the
\* bind: the loop ends once the path exists
vsock_wait(r, result) ==
    /\ guest # None
    /\ guest # Some("absent")
    /\ vsock_bind(r, result)

\* the connection of a guest that connects: what it writes before it waits
\* for the payload
guest_connection ==
    IF guest = Some("mute") THEN [pending |-> <<>>, closed |-> FALSE]
    ELSE [pending |-> READY, closed |-> FALSE]

\* stream.readable().await of the handshake returns once the stream holds
\* bytes or is closed, and the turn of the loop follows
handshake_readable(r) ==
    /\ req[r].pc = "handshake"
    /\ run[r].stream.pending # <<>> \/ run[r].stream.closed
    /\ handshake_read(r)

\* while bytes_written < 8 { try_write .. WouldBlock => continue }: the
\* loops of the payload end once the guest reads
payload_accepted(r, result) ==
    /\ guest # Some("deaf")
    /\ write_payload(r, result)

\* stream.readable().await of the response returns once the guest sends
response_readable(r, body) ==
    /\ guest # Some("quiet")
    /\ read_response(r, body)

(***************************************************************************)
(* The pool of guest addresses and its callers: new_instance gets an       *)
(* address, the end of a run releases the address of its machine.  `held`  *)
(* lists the addresses got and not released, `last` is the last call.      *)
(***************************************************************************)
\* the sequence s without its first element equal to x
RECURSIVE remove_first(_, _)
remove_first(s, x) ==
    IF s = <<>> THEN <<>>
    ELSE IF s[1] = x THEN SubSeq(s, 2, Len(s))
    ELSE <<s[1]>> \o remove_first(SubSeq(s, 2, Len(s)), x)

\* network.get() panicked under the lock: the mutex is poisoned and every
\* later lock() fails
poisoned == last.op = "get" /\ last.ret.panic

\* FirecrackerBuilder::new_instance: self.network.lock() and network.get()
pool_get ==
    /\ ~poisoned
    /\ LET g == Addresses_get(network)
       IN /\ network' = g.network
          /\ held' = IF g.ip = None THEN held ELSE Append(held, g.ip[1])
          /\ last' = [op |-> "get", arg |-> None,
                      ret |-> [ip |-> g.ip, panic |-> g.panic]]
    /\ UNCHANGED <<nodes, strategy, emergency, identity, in_emergency_area,
                   cpus_available, ctl, req, machines, instances, run,
                   io, sock, guest, chain, legacy, ice>>

\* builder.network.lock().unwrap().release(ip), ip being the address of a
\* machine of the caller
pool_release(ip) ==
    /\ ~poisoned
    /\ \E k \in DOMAIN held : held[k] = ip
    /\ network' = Addresses_release(network, ip)
    /\ held' = remove_first(held, ip)
    /\ last' = [op |-> "release", arg |-> Some(ip), ret |-> None]
    /\ UNCHANGED <<nodes, strategy, emergency, identity, in_emergency_area,
                   cpus_available, ctl, req, machines, instances, run,
                   io, sock, guest, chain, legacy, ice>>

(***************************************************************************)
(* The worker: the orchestrator built from the broker's node list, the     *)
(* emergency controller and the handlers of the requests.                  *)
(***************************************************************************)
\* the nodes of ADD_NODES without the local node, in the broker's order
BrokerNodes ==
    << [address |-> Addr3, position |-> 2],
       [address |-> Addr1, position |-> 1],
       [address |-> Addr2, position |-> 2] >>

\* main: the orchestrator is built from the broker's list under one of the
\* strategies `strats`; `handlers` are the handlers of the requests to come
WorkerInit(list, handlers, strats) ==
    /\ strategy \in strats
    /\ identity = [address |-> LocalAddress, position |-> 0]
    /\ nodes \in {Orchestrator_new(list, strategy, identity, obs) :
                     obs \in Observations(strategy, Len(list))}
    /\ emergency = None
    /\ in_emergency_area = FALSE
    /\ cpus_available = CpuTotal
    /\ ctl = [pc |-> "idle", em |-> None]
    /\ req = [r \in handlers |-> IdleRequest]
    /\ last = [op |-> "new", arg |-> None, ret |-> None]
    /\ PipelineInit(handlers)

\* a step of the handler r of a request drawn from `inputs`, sent from one
\* of `sources`
HandlerStep(r, inputs, sources) ==
    \/ \E data \in inputs, src \in sources : invoke_entry(r, data, src)
    \/ \E m \in AvailableMemory : check_and_acquire_resources(r, m)
    \/ release_unacquired(r)
    \/ invoke_give_up(r)
    \/ \E outcome \in CreateOutcomes : start_instance_create(r, outcome)
    \/ start_instance_err(r)
    \/ \E body \in GuestBodies : start_instance_ok(r, body)
    \/ offload_begin(r)
    \/ offload_lookup(r)
    \/ \E answer \in PeerResources \cup {SendError, JsonError} :
          offload_probe(r, answer)
    \/ \E answer \in PeerBodies \cup {InvokeError} : offload_forward(r, answer)

\* a step of the emergency controller
ControllerStep ==
    \/ \E em_pos \in Emergencies : set_emergency_start(em_pos)
    \/ set_emergency_inside
    \/ set_emergency_outside
    \/ set_emergency_stop
    \/ set_emergency_leave

(***************************************************************************)
(* Spec: one request, of any input, against the emergency controller, on a *)
(* node started without STRATEGY.                                          *)
(***************************************************************************)
Init == WorkerInit(BrokerNodes, {1}, {"GeoDistance"})

Next ==
    \/ HandlerStep(1, InvokeFunctions, SourceIps)
    \/ ControllerStep

Spec == Init /\ [][Next]_vars

(***************************************************************************)
(* SpecAccounting: NumRequests concurrent requests of clients, which       *)
(* differ in their vcpus, on a node with one peer and no emergency.        *)
(***************************************************************************)
AccountingInputs ==
    {d \in InvokeFunctions : d.hops = 0 /\ ~d.emergency /\ d.payload = None}

InitAccounting == WorkerInit(<<BrokerNodes[1]>>, Requests, {"GeoDistance"})

NextAccounting ==
    \E r \in Requests : HandlerStep(r, AccountingInputs, {ClientIp})

SpecAccounting == InitAccounting /\ [][NextAccounting]_vars

(***************************************************************************)
(* SpecAdmission: two concurrent requests of clients, each asking for up   *)
(* to all the CPUs of the host, on a node with one peer.                   *)
(***************************************************************************)
AdmissionRequests == {1, 2}

AdmissionInputs ==
    [function : {"f"}, image : {"img"}, vcpus : 1..CpuTotal,
     memory : {1}, payload : {None}, emergency : {FALSE}, hops : {0}]

InitAdmission == WorkerInit(<<BrokerNodes[1]>>, AdmissionRequests, {"GeoDistance"})

NextAdmission ==
    \E r \in AdmissionRequests : HandlerStep(r, AdmissionInputs, {ClientIp})

SpecAdmission == InitAdmission /\ [][NextAdmission]_vars

(***************************************************************************)
(* SpecCellular: one request of a client or of the first peer against the  *)
(* emergency controller, on a node started with STRATEGY=SimpleCellular    *)
(* and two peers.                                                          *)
(***************************************************************************)
InitCellular ==
    WorkerInit(<<BrokerNodes[1], BrokerNodes[2]>>, {1}, {"SimpleCellular"})

NextCellular ==
    \/ HandlerStep(1, AccountingInputs, SourceIps)
    \/ ControllerStep

SpecCellular == InitCellular /\ [][NextCellular]_vars

(***************************************************************************)
(* SpecLocks: one request of a client or of the first peer against the     *)
(* emergency controller, whose set_emergency takes its locks one step at a *)
(* time; the handler waits for the mutex of in_emergency_area.             *)
(***************************************************************************)
NextLocks ==
    \/ /\ req[1].pc = "idle" => ~area_locked
       /\ HandlerStep(1, AccountingInputs, SourceIps)
    \/ \E em_pos \in Emergencies : set_emergency_start(em_pos)
    \/ set_emergency_outside
    \/ set_emergency_stop
    \/ set_emergency_area_lock
    \/ set_emergency_area_store

SpecLocks == InitCellular /\ [][NextLocks]_vars

(***************************************************************************)
(* The environment of a pipeline: the outcomes its calls can have.         *)
(***************************************************************************)
\* every outcome of every call
FullEnv ==
    [creations |-> CreationOutcomes,
     results |-> Results,
     accepts |-> Connections \cup {AcceptError, AcceptTimeout},
     bodies |-> GuestBodies \cup {ReadError},
     stops |-> Results, kills |-> Results, updates |-> Results]

\* a VM monitor and a log that work; guests that greet with "ready" or
\* with "hello", or do not connect
SoundEnv ==
    [creations |-> {"Ok", "TapCreate"},
     results |-> Results,
     accepts |-> {[pending |-> READY, closed |-> FALSE],
                  [pending |-> <<"h", "e", "l", "l", "o">>, closed |-> TRUE],
                  AcceptTimeout},
     bodies |-> GuestBodies \cup {ReadError},
     stops |-> {"Ok"}, kills |-> {"Ok"}, updates |-> {"Ok"}]

\* a step of the retry loop of invoke and of start_instance, for the
\* handler r in the environment env
PipelineStep(r, env) ==
    \/ invoke_give_up(r)
    \/ \E outcome \in env.creations : new_instance(r, outcome)
    \/ \E result \in env.results : instance_insert(r, result)
    \/ \E result \in env.results : vsock_bind(r, result)
    \/ \E result \in env.results : instance_start(r, result)
    \/ \E conn \in env.accepts : socket_accept(r, conn)
    \/ handshake_read(r)
    \/ \E result \in env.results : write_payload(r, result)
    \/ \E body \in env.bodies : read_response(r, body)
    \/ \E stopped \in env.stops, killed \in env.kills :
          instance_stop_delete(r, stopped, killed)
    \/ \E updated \in env.updates : instance_terminated(r, updated)
    \/ \E updated \in env.updates : emergency_cleanup_status(r, updated)
    \/ \E killed \in env.kills : emergency_cleanup_delete(r, killed)

\* the requests of the pipeline specifications
PipelineInputs ==
    {d \in InvokeFunctions :
        d.vcpus = 1 /\ d.memory = 1 /\ d.hops = 0 /\ ~d.emergency}

(***************************************************************************)
(* SpecRetry: one request of a client on a node without peers, from its    *)
(* arrival to its answer, in an environment whose VM monitor and log work. *)
(***************************************************************************)
InitRetry == WorkerInit(<<>>, {1}, {"GeoDistance"})

NextRetry ==
    \/ \E data \in PipelineInputs : invoke_entry(1, data, ClientIp)
    \/ \E m \in AvailableMemory : check_and_acquire_resources(1, m)
    \/ release_unacquired(1)
    \/ offload_begin(1)
    \/ PipelineStep(1, SoundEnv)

SpecRetry == InitRetry /\ [][NextRetry]_vars

(***************************************************************************)
(* SpecPipeline: the last attempt of a request, with every outcome of      *)
(* every call.  It starts where SpecRetry is after three runs that failed  *)
(* at the bind of the vsock listener.                                      *)
(***************************************************************************)
InitPipeline ==
    /\ strategy = "GeoDistance"
    /\ identity = [address |-> LocalAddress, position |-> 0]
    /\ nodes = <<>>
    /\ emergency = None
    /\ in_emergency_area = FALSE
    /\ cpus_available = CpuTotal - 1
    /\ ctl = [pc |-> "idle", em |-> None]
    /\ last = [op |-> "new", arg |-> None, ret |-> None]
    /\ \E data \in PipelineInputs :
          req = <<[IdleRequest EXCEPT !.pc = "run", !.data = data,
                      !.src = ClientIp, !.retries = max_retries, !.held = 1,
                      !.checks = 1, !.acquired = 1, !.runs = max_retries,
                      !.records = max_retries]>>
    /\ network = [available |-> <<2>>, last_assigned |-> 2, filter |-> {}]
    /\ machines = [k \in 1..max_retries |->
                      [ip |-> 2, tap |-> "removed", vm |-> "killed",
                       ended |-> "Failed"]]
    /\ instances = [k \in 1..max_retries |->
                       [id |-> k, status |-> "failed", fc |-> k]]
    /\ run = <<IdleRun>>
    /\ io = None
    /\ sock = None
    /\ held = <<>>
    /\ guest = None
    /\ chain = None
    /\ legacy = None
    /\ ice = None

NextPipeline == PipelineStep(1, FullEnv)

SpecPipeline == InitPipeline /\ [][NextPipeline]_vars

\* the state SpecPipeline starts in
LastAttempt == InitPipeline

(***************************************************************************)
(* SpecFraming: one run of start_instance from the payload to the          *)
(* response, over every payload, every split of the writes and of the      *)
(* reads, and every guest stream.                                          *)
(***************************************************************************)
InitFraming == WorkerInit(<<>>, {1}, {"GeoDistance"})

NextFraming ==
    \/ \E payload \in Payloads, incoming \in GuestStreams :
          payload_begin(payload, incoming)
    \/ \E result \in Results : payload_writable(result)
    \/ write_payload_len
    \/ \E result \in Results : payload_body_writable(result)
    \/ write_payload_bytes
    \/ read_response_len
    \/ read_response_body

SpecFraming == InitFraming /\ [][NextFraming]_vars

(***************************************************************************)
(* SpecSocket: one call of read_exact or write_all, over every length of   *)
(* the buffer, every deadline and every stream.  The loop of a call that   *)
(* has not returned always takes its next turn.                            *)
(***************************************************************************)
InitSocket == WorkerInit(<<>>, {1}, {"GeoDistance"})

NextSocket ==
    \/ \E op \in {"read_exact", "write_all"}, len \in 0..MaxBufLen,
          max_timeout \in 0..MaxDeadline, kind \in StreamKinds :
          socket_call(op, len, max_timeout, kind)
    \/ read_exact
    \/ write_all

SpecSocket == InitSocket /\ [][NextSocket]_vars /\ WF_vars(NextSocket)

(***************************************************************************)
(* SpecLive: the last attempt of a request with a guest of every kind, on  *)
(* a host whose calls return.  The handler always takes its next step when *)
(* it has one.                                                             *)
(***************************************************************************)
NextLive ==
    \/ invoke_give_up(1)
    \/ \E outcome \in CreationOutcomes : new_instance(1, outcome)
    \/ \E result \in Results : instance_insert(1, result)
    \/ \E kind \in GuestKinds : guest_boot(1, kind)
    \/ \E result \in Results : vsock_wait(1, result)
    \/ \E result \in Results : instance_start(1, result)
    \/ \E conn \in {guest_connection, AcceptError, AcceptTimeout} :
          socket_accept(1, conn)
    \/ handshake_readable(1)
    \/ \E result \in Results : payload_accepted(1, result)
    \/ \E body \in GuestBodies \cup {ReadError} : response_readable(1, body)
    \/ \E stopped \in Results, killed \in Results :
          instance_stop_delete(1, stopped, killed)
    \/ \E updated \in Results : instance_terminated(1, updated)
    \/ \E updated \in Results : emergency_cleanup_status(1, updated)
    \/ \E killed \in Results : emergency_cleanup_delete(1, killed)

SpecLive == InitPipeline /\ [][NextLive]_vars /\ WF_vars(NextLive)

(***************************************************************************)
(* SpecPool: every sequence of get and release on the pool of a network of *)
(* NetworkSize addresses, release being called with an address held.       *)
(***************************************************************************)
InitPool == WorkerInit(<<>>, {1}, {"GeoDistance"})

NextPool ==
    \/ pool_get
    \/ \E ip \in 0..(NetworkSize - 1) : pool_release(ip)

SpecPool == InitPool /\ [][NextPool]_vars

(***************************************************************************)
(* SpecOffload: one request of a client or of the peer with IP 1, against  *)
(* the emergency controller, on a node whose peers include one with IP 12, *)
(* an IP that begins with the digits of the requester's.  The request asks *)
(* for little memory, or for so much that memory * 1024 leaves i32.        *)
(***************************************************************************)
\* a memory request in MB whose product with 1024 does not fit in i32
WrappingMemory == 4194304

Addr12 == <<"1", "2", ":", "8">>

OffloadNodes ==
    << [address |-> Addr12, position |-> 1],
       [address |-> Addr1, position |-> 1],
       [address |-> Addr2, position |-> 2] >>

OffloadInputs ==
    [function : {"f"}, image : {"img"}, vcpus : 1..MaxVcpus,
     memory : {1, WrappingMemory}, payload : {None}, emergency : {FALSE},
     hops : {0}]

InitOffload == WorkerInit(OffloadNodes, {1}, {"GeoDistance"})

NextOffload ==
    \/ HandlerStep(1, OffloadInputs, SourceIps)
    \/ ControllerStep

SpecOffload == InitOffload /\ [][NextOffload]_vars


(***************************************************************************)
(* SpecRegistry: a NeighborNodeList of its own under GeoDistance, as the   *)
(* unit tests of global/mod.rs use it: any sequence of calls, on at most   *)
(* MaxNodes peers.  `last` holds the last call, its argument and what it   *)
(* returned.                                                               *)
(***************************************************************************)
registry_frame == UNCHANGED <<pipeline_vars, strategy, identity, in_emergency_area,
                              cpus_available, ctl, req>>

\* list.add_node(address, position), on a list of less than `cap` nodes
registry_add_node(position, cap) ==
    /\ Len(nodes) < cap
    /\ nodes' = add_node(nodes, strategy, PeerAddress(Len(nodes) + 1), position)
    /\ last' = [op |-> "add_node", arg |-> position, ret |-> None]
    /\ UNCHANGED emergency
    /\ registry_frame

\* list.set_emergency(em_pos)
registry_set_emergency(em_pos) ==
    /\ NeighborNodeList_set_emergency(em_pos)
    /\ last' = [op |-> "set_emergency", arg |-> em_pos, ret |-> None]
    /\ registry_frame

\* list.clear_emergency()
registry_clear_emergency ==
    /\ NeighborNodeList_clear_emergency
    /\ last' = [op |-> "clear_emergency", arg |-> None, ret |-> None]
    /\ registry_frame

\* list.sort(identity)
registry_sort ==
    /\ \E obs \in Observations(strategy, Len(nodes)) :
          nodes' = sort(nodes, strategy, emergency, identity, obs)
    /\ last' = [op |-> "sort", arg |-> identity, ret |-> None]
    /\ UNCHANGED emergency
    /\ registry_frame

\* list.get_nth(nth)
registry_get_nth(nth) ==
    /\ last' = [op |-> "get_nth", arg |-> nth, ret |-> get_nth(nodes, nth)]
    /\ UNCHANGED <<pipeline_vars, nodes, emergency>>
    /\ registry_frame

\* the count of Orchestrator::number_of_nodes on the list
registry_count_available ==
    /\ last' = [op |-> "count_available", arg |-> None,
                ret |-> number_of_nodes(nodes)]
    /\ UNCHANGED <<pipeline_vars, nodes, emergency>>
    /\ registry_frame

\* NeighborNodeList::new(strategy) for one of the strategies `strats`, and
\* a local identity at one of `positions`
RegistryInit(strats, positions) ==
    /\ strategy \in strats
    /\ identity \in [address : {LocalAddress}, position : positions]
    /\ nodes = <<>>
    /\ emergency = None
    /\ in_emergency_area = FALSE
    /\ cpus_available = CpuTotal
    /\ ctl = [pc |-> "idle", em |-> None]
    /\ req = <<>>
    /\ last = [op |-> "new", arg |-> None, ret |-> None]
    /\ PipelineInit({})

\* a call on a list of at most `cap` nodes
RegistryStep(cap) ==
    \/ \E position \in Positions : registry_add_node(position, cap)
    \/ \E em_pos \in Emergencies : registry_set_emergency(em_pos)
    \/ registry_clear_emergency
    \/ registry_sort
    \/ \E nth \in 0..cap : registry_get_nth(nth)
    \/ registry_count_available

InitRegistry == RegistryInit({"GeoDistance"}, Positions)

NextRegistry == RegistryStep(MaxNodes)

SpecRegistry == InitRegistry /\ [][NextRegistry]_vars

(***************************************************************************)
(* SpecLatencyRegistry: the same calls on a list under SimpleCellular or   *)
(* SmartLatency, of at most MaxLatencyNodes peers, for a local identity at *)
(* position 0.                                                             *)
(***************************************************************************)
MaxLatencyNodes == 2

InitLatencyRegistry == RegistryInit({"SimpleCellular", "SmartLatency"}, {0})

NextLatencyRegistry == RegistryStep(MaxLatencyNodes)

SpecLatencyRegistry == InitLatencyRegistry /\ [][NextLatencyRegistry]_vars


(***************************************************************************)
(* SpecSorting: the calls that change a list, under any of the strategies. *)
(***************************************************************************)
InitSorting == RegistryInit(Strategies, {0})

NextSorting ==
    \/ \E position \in Positions : registry_add_node(position, MaxLatencyNodes)
    \/ \E em_pos \in Emergencies : registry_set_emergency(em_pos)
    \/ registry_clear_emergency
    \/ registry_sort

SpecSorting == InitSorting /\ [][NextSorting]_vars


(***************************************************************************)
(* SpecSmart: the same calls on a list under SmartLatency whose peers are  *)
(* given latency samples, at most MaxSamples of them in all.  The peers    *)
(* are at the position of the local identity.                              *)
(***************************************************************************)
MaxSamples == 3

\* the latencies a sample can measure, in milliseconds: multiples of 12, so
\* that the running mean of up to 4 samples is a whole number
LatencySamples == {12, 36}

RECURSIVE samples_from(_, _)
\* the samples given to the peers of `ns` from the index k on
samples_from(ns, k) ==
    IF k > Len(ns) THEN 0 ELSE ns[k].sample_count + samples_from(ns, k + 1)

\* nodes[i].update_latency(new_latency), on a peer of the list
registry_update_latency(i, new_latency) ==
    /\ i \in DOMAIN nodes
    /\ samples_from(nodes, 1) < MaxSamples
    /\ nodes' = [nodes EXCEPT ![i] = update_latency(nodes[i], new_latency)]
    /\ last' = [op |-> "update_latency", arg |-> new_latency, ret |-> None]
    /\ UNCHANGED emergency
    /\ registry_frame

InitSmart == RegistryInit({"SmartLatency"}, {0})

NextSmart ==
    \/ registry_add_node(0, MaxLatencyNodes)
    \/ \E em_pos \in Emergencies : registry_set_emergency(em_pos)
    \/ registry_clear_emergency
    \/ registry_sort
    \/ \E nth \in 0..MaxLatencyNodes : registry_get_nth(nth)
    \/ registry_count_available
    \/ \E i \in 1..MaxLatencyNodes, new_latency \in LatencySamples :
          registry_update_latency(i, new_latency)

SpecSmart == InitSmart /\ [][NextSmart]_vars


(***************************************************************************)
(* SpecCluster: three nodes that run this code, each with the two others   *)
(* as its peers, and one request of a client.  A node that forwards the    *)
(* request waits for the answer of its peer: `chain` is the stack of the   *)
(* handlers of the request, the last one being the one that runs.  Whether *)
(* a node admits the request, and what a probe of its resources answers,   *)
(* depends on the other requests it serves at that time.                   *)
(***************************************************************************)
\* the forwards of a request that are followed
MaxForwards == 12

ClusterNodes == 1..3

\* the registry of the node k: the other nodes, none of them masked
cluster_peers(k) ==
    LET others == ClusterNodes \ {k}
        low == CHOOSE j \in others : \A q \in others : j <= q
        high == CHOOSE j \in others : j # low
    IN <<GeoDistance_new(0, PeerAddress(low)),
         GeoDistance_new(0, PeerAddress(high))>>

\* the handler of a POST /invoke received by the node `at` from the IP `src`
cluster_handler(at, src) == [at |-> at, src |-> src, pc |-> "invoke", i |-> 0]

\* the node with the address `address`
node_of(address) == CHOOSE k \in ClusterNodes : PeerAddress(k) = address

\* the IP of an "ip:port" address
RECURSIVE peer_ip(_)
peer_ip(address) ==
    IF address = <<>> \/ Head(address) = ":" THEN <<>>
    ELSE <<Head(address)>> \o peer_ip(Tail(address))

\* the last handler of the stack answers `resp`: a 200 is the answer of
\* every handler that waits for it (NeighborNodeType::invoke returns the
\* body and offload returns it), another status is Err(InvokeError) for
\* the handler that waits, which goes on with its next peer
RECURSIVE answered(_, _)
answered(c, resp) ==
    LET rest == SubSeq(c.stack, 1, Len(c.stack) - 1)
    IN IF rest = <<>> THEN [c EXCEPT !.stack = <<>>, !.resp = Some(resp)]
       ELSE IF resp.status = 200
       THEN answered([c EXCEPT !.stack = rest], resp)
       ELSE [c EXCEPT !.stack =
               [rest EXCEPT ![Len(rest)].pc = "offload",
                            ![Len(rest)].i = @ + 1]]

\* a client posts a request with hops = 0 to the node `at`
cluster_request(at, data) ==
    /\ chain = None
    /\ chain' = [stack |-> <<cluster_handler(at, ClientIp)>>, data |-> data,
                 forwards |-> 0, resp |-> None]
    /\ UNCHANGED <<nodes, strategy, emergency, identity, in_emergency_area,
                   cpus_available, ctl, req, last, network, machines,
                   instances, run, io, sock, held, guest, legacy, ice>>

\* invoke on the node that has the request: the hop check, then the request
\* is run on the node and answered 200, or it is offloaded
cluster_invoke(admitted) ==
    /\ chain # None
    /\ chain.stack # <<>>
    /\ chain.stack[Len(chain.stack)].pc = "invoke"
    /\ chain' =
          IF too_many_hops(chain.data.hops) THEN answered(chain, TooManyHops)
          ELSE IF admitted THEN answered(chain, Ok("hello"))
          ELSE [chain EXCEPT !.stack[Len(chain.stack)].pc = "offload"]
    /\ UNCHANGED <<nodes, strategy, emergency, identity, in_emergency_area,
                   cpus_available, ctl, req, last, network, machines,
                   instances, run, io, sock, held, guest, legacy, ice>>

\* one iteration of the loop of Orchestrator::offload on the node that has
\* the request: the peer is skipped as the origin, or it is probed and,
\* with enough resources, the request is posted to it
cluster_offload(enough) ==
    /\ chain # None
    /\ chain.stack # <<>>
    /\ chain.stack[Len(chain.stack)].pc = "offload"
    /\ LET top == chain.stack[Len(chain.stack)]
           node == get_nth(cluster_peers(top.at), top.i)
       IN IF top.i >= number_of_nodes(cluster_peers(top.at)) \/ node = None
          THEN chain' = answered(chain, InsufficientResources)
          ELSE IF same_origin(node.address, top.src) \/ ~enough
          THEN chain' = [chain EXCEPT !.stack[Len(chain.stack)].i = @ + 1]
          ELSE /\ chain.forwards < MaxForwards
               /\ chain' =
                    [chain EXCEPT
                       !.stack = Append([@ EXCEPT ![Len(@)].pc = "forward"],
                                        cluster_handler(
                                            node_of(node.address),
                                            peer_ip(PeerAddress(top.at)))),
                       !.data = forwarded_request(@),
                       !.forwards = @ + 1]
    /\ UNCHANGED <<nodes, strategy, emergency, identity, in_emergency_area,
                   cpus_available, ctl, req, last, network, machines,
                   instances, run, io, sock, held, guest, legacy, ice>>

InitCluster == WorkerInit(<<>>, {1}, {"GeoDistance"})

NextCluster ==
    \/ \E at \in ClusterNodes, data \in AccountingInputs :
          cluster_request(at, data)
    \/ \E admitted \in BOOLEAN : cluster_invoke(admitted)
    \/ \E enough \in BOOLEAN : cluster_offload(enough)

SpecCluster == InitCluster /\ [][NextCluster]_vars


(***************************************************************************)
(* SpecLegacy: GlobalResources of orchestrator/global_resources.rs, the    *)
(* former registry, and any sequence of calls on it.  A NeighborNode is a  *)
(* node with its emergency flag; a NeighborNodeList is a Vec of them and   *)
(* also an Iterator, whose next() pops the last node of the Vec.           *)
(***************************************************************************)
\* NeighborNode::new(node), for the k-th node of the list given to new
NeighborNode_new(k, position) ==
    [address |-> PeerAddress(k), position |-> position, emergency |-> FALSE]

\* the lists nearest_neighbor can return: the order is the one found by the
\* search of the instant_distance crate, here any order
OrderedNodes ==
    UNION {[1..n -> Positions] : n \in 0..MaxNodes}

\* GlobalResources::new(nodes, identity)
GlobalResources_new(ordered_nodes) ==
    [nodes |-> [k \in DOMAIN ordered_nodes |->
                   NeighborNode_new(k, ordered_nodes[k])],
     emergency |-> 0, radius |-> 0]

\* GlobalResources::compute_emergency_nodes(position, radius)
compute_emergency_nodes(g, em_pos) ==
    [nodes |-> set_emergency_flags(g.nodes, em_pos),
     emergency |-> em_pos.position, radius |-> em_pos.radius]

\* <NeighborNodeList as Iterator>::next: self.nodes.pop()
RECURSIVE drained(_)
drained(ns) ==
    IF ns = <<>> THEN ns ELSE drained(SubSeq(ns, 1, Len(ns) - 1))

\* GlobalResources::clean_emergency_nodes: `for mut node in &mut self.nodes`
\* iterates the list as an Iterator: every turn pops a node, sets the flag
\* of the popped value and drops it
clean_emergency_nodes(g) ==
    [nodes |-> drained(g.nodes), emergency |-> 0, radius |-> 0]

\* GlobalResources::new
legacy_new(ordered_nodes) ==
    /\ legacy = None
    /\ legacy' = GlobalResources_new(ordered_nodes)
    /\ last' = [op |-> "new", arg |-> None, ret |-> None]
    /\ UNCHANGED <<nodes, strategy, emergency, identity, in_emergency_area,
                   cpus_available, ctl, req, network, machines,
                   instances, run, io, sock, held, guest, chain, ice>>

\* global_resources.compute_emergency_nodes(position, radius)
legacy_compute_emergency_nodes(em_pos) ==
    /\ legacy # None
    /\ legacy' = compute_emergency_nodes(legacy, em_pos)
    /\ last' = [op |-> "compute_emergency_nodes", arg |-> None, ret |-> None]
    /\ UNCHANGED <<nodes, strategy, emergency, identity, in_emergency_area,
                   cpus_available, ctl, req, network, machines,
                   instances, run, io, sock, held, guest, chain, ice>>

\* global_resources.clean_emergency_nodes()
legacy_clean_emergency_nodes ==
    /\ legacy # None
    /\ legacy' = clean_emergency_nodes(legacy)
    /\ last' = [op |-> "clean_emergency_nodes", arg |-> None, ret |-> None]
    /\ UNCHANGED <<nodes, strategy, emergency, identity, in_emergency_area,
                   cpus_available, ctl, req, network, machines,
                   instances, run, io, sock, held, guest, chain, ice>>

\* global_resources.nth(num): get_nth_node(num, 0, 0), which skips the
\* flagged nodes as NeighborNodeList::get_nth does
legacy_nth(num) ==
    /\ legacy # None
    /\ last' = [op |-> "nth", arg |-> Some(num),
                ret |-> get_nth(legacy.nodes, num)]
    /\ UNCHANGED <<nodes, strategy, emergency, identity, in_emergency_area,
                   cpus_available, ctl, req, network, machines,
                   instances, run, io, sock, held, guest, chain, legacy, ice>>

\* global_resources.len()
legacy_len ==
    /\ legacy # None
    /\ last' = [op |-> "len", arg |-> None, ret |-> Some(Len(legacy.nodes))]
    /\ UNCHANGED <<nodes, strategy, emergency, identity, in_emergency_area,
                   cpus_available, ctl, req, network, machines,
                   instances, run, io, sock, held, guest, chain, legacy, ice>>

InitLegacy == WorkerInit(<<>>, {1}, {"GeoDistance"})

NextLegacy ==
    \/ \E ordered_nodes \in OrderedNodes : legacy_new(ordered_nodes)
    \/ \E em_pos \in Emergencies : legacy_compute_emergency_nodes(em_pos)
    \/ legacy_clean_emergency_nodes
    \/ \E num \in 0..MaxNodes : legacy_nth(num)
    \/ legacy_len

SpecLegacy == InitLegacy /\ [][NextLegacy]_vars


(***************************************************************************)
(* SpecIcebreaker: the Orchestrator of icebreaker (orchestrator/mod.rs),   *)
(* lock by lock.  Its fields are in_emergency_area: Mutex<bool>,           *)
(* resources: Mutex<LocalResources> and global_resources:                  *)
(* RwLock<GlobalResources>.  The emergency controller calls set_emergency  *)
(* and the handlers call the other methods, each task one call at a time.  *)
(* A call is a program of instructions: an acquisition waits until the     *)
(* lock grants it, the others are the statements under the guards.         *)
(***************************************************************************)
IceController == "controller"

IceHandlers == {"handler1", "handler2"}

IceTasks == {IceController} \cup IceHandlers

\* std::sync::RwLock guarantees no priority policy: a writer that waits
\* "might or might not block concurrent calls to read"
RwLockPolicies == {"readers", "writers"}

\* the positions of the peers of the node, which is at position 0
IceNodes == <<0, MaxPos>>

\* Orchestrator::new
Orchestrator_new_ice(policy) ==
    [policy |-> policy,
     readers |-> [t \in IceTasks |-> 0],  \* read guards of global_resources
     writer |-> None,                     \* holder of its write guard
     area |-> None,                       \* holder of in_emergency_area
     accountant |-> None,                 \* holder of resources
     in_emergency_area |-> FALSE,
     emergency_nodes |-> {},              \* indices of the nodes in the zone
     task |-> [t \in IceTasks |->
                  [method |-> "idle", pc |-> 0, arg |-> None, ret |-> None]]]

\* the calls of the emergency controller: set_emergency(true, point, radius)
\* and set_emergency(false, _, _)
ControllerCalls ==
    [method : {"set_emergency"},
     arg : {None} \cup {Some(em_pos) : em_pos \in Emergencies}]

\* the calls of a handler
HandlerCalls ==
    [method : {"in_emergency_area", "number_of_nodes", "get_resources",
               "check_and_acquire_resources", "release_resources"},
     arg : {None}]
    \cup [method : {"get_remote_nth_node"},
          arg : {Some(index) : index \in 0..Len(IceNodes)}]

\* the statements of a call, one instruction per lock operation
program(method, arg) ==
    CASE method = "in_emergency_area" -> <<"lock_area", "return_area">>
      [] method = "number_of_nodes" -> <<"read", "read", "return_count">>
      [] method = "get_remote_nth_node" -> <<"read", "return_nth">>
      [] method \in {"get_resources", "check_and_acquire_resources",
                     "release_resources"} ->
            <<"lock_resources", "return_resources">>
      [] method = "set_emergency" /\ arg = None ->
            <<"write", "clean_emergency_nodes", "lock_area", "store_area">>
      [] method = "set_emergency" /\ arg # None ->
            IF distance(0, arg[1].position) <= arg[1].radius
            THEN <<"write", "compute_emergency_nodes", "lock_area",
                   "store_area", "drop_write">>
            ELSE <<"write", "compute_emergency_nodes", "drop_write">>

\* the instruction a task is at
instr(t) ==
    IF ice.task[t].method = "idle" THEN "idle"
    ELSE program(ice.task[t].method, ice.task[t].arg)[ice.task[t].pc]

\* the task goes on to its next instruction, or returns
advance(t, ret) ==
    IF ice.task[t].pc = Len(program(ice.task[t].method, ice.task[t].arg))
    THEN [method |-> "idle", pc |-> 0, arg |-> None, ret |-> ret]
    ELSE [ice.task[t] EXCEPT !.pc = @ + 1]

\* the tasks with a guard of global_resources that are in the set S
lock_holders(S) ==
    {t \in S : ice.readers[t] > 0 \/ ice.writer = Some(t)}

\* RwLock::read grants the guard, as far as the tasks of S are concerned:
\* there is no writer, and under the policy that prefers the writers none
\* waits for the lock
read_granted(S) ==
    /\ \A t \in S : ice.writer # Some(t)
    /\ \/ ice.policy = "readers"
       \/ lock_holders(S) = {}
       \/ \A t \in S : instr(t) # "write"

\* RwLock::write grants the guard: no task holds one
write_granted(S) == lock_holders(S) = {}

\* Mutex::lock grants the guard
mutex_granted(owner, S) == \A t \in S : owner # Some(t)

\* the acquisition a task is at is granted
granted(t, S) ==
    CASE instr(t) = "read" -> read_granted(S)
      [] instr(t) = "write" -> write_granted(S)
      [] instr(t) = "lock_area" -> mutex_granted(ice.area, S)
      [] instr(t) = "lock_resources" -> mutex_granted(ice.accountant, S)
      [] OTHER -> TRUE

\* a task calls a method of the orchestrator
ice_call(t, call) ==
    /\ ice # None
    /\ ice.task[t].method = "idle"
    /\ ice' = [ice EXCEPT !.task[t] = [method |-> call.method, pc |-> 1,
                                       arg |-> call.arg, ret |-> None]]
    /\ UNCHANGED <<nodes, strategy, emergency, identity, in_emergency_area,
                   cpus_available, ctl, req, last, network, machines,
                   instances, run, io, sock, held, guest, chain, legacy>>

\* self.global_resources.read().unwrap()
ice_read(t) ==
    /\ ice # None
    /\ instr(t) = "read"
    /\ granted(t, IceTasks)
    /\ ice' = [ice EXCEPT !.readers[t] = @ + 1,
                          !.task[t] = advance(t, None)]
    /\ UNCHANGED <<nodes, strategy, emergency, identity, in_emergency_area,
                   cpus_available, ctl, req, last, network, machines,
                   instances, run, io, sock, held, guest, chain, legacy>>

\* self.global_resources.write().unwrap()
ice_write(t) ==
    /\ ice # None
    /\ instr(t) = "write"
    /\ granted(t, IceTasks)
    /\ ice' = [ice EXCEPT !.writer = Some(t), !.task[t] = advance(t, None)]
    /\ UNCHANGED <<nodes, strategy, emergency, identity, in_emergency_area,
                   cpus_available, ctl, req, last, network, machines,
                   instances, run, io, sock, held, guest, chain, legacy>>

\* self.in_emergency_area.lock().unwrap() and self.resources.lock().unwrap()
ice_lock(t) ==
    /\ ice # None
    /\ instr(t) \in {"lock_area", "lock_resources"}
    /\ granted(t, IceTasks)
    /\ ice' = IF instr(t) = "lock_area"
              THEN [ice EXCEPT !.area = Some(t),
                               !.task[t] = advance(t, None)]
              ELSE [ice EXCEPT !.accountant = Some(t),
                               !.task[t] = advance(t, None)]
    /\ UNCHANGED <<nodes, strategy, emergency, identity, in_emergency_area,
                   cpus_available, ctl, req, last, network, machines,
                   instances, run, io, sock, held, guest, chain, legacy>>

\* GlobalResources::nth(num): the num-th node that is not in emergency_nodes
RECURSIVE ice_get_nth_node(_, _, _)
ice_get_nth_node(nth, acc, index) ==
    IF index > Len(IceNodes) THEN None
    ELSE IF index \in ice.emergency_nodes
         THEN ice_get_nth_node(nth, acc, index + 1)
         ELSE IF nth = acc THEN Some(index)
              ELSE ice_get_nth_node(nth, acc + 1, index + 1)

\* the end of a method of a handler: the value is computed under the guards
\* and the guards are dropped.  number_of_nodes is
\* read().unwrap().len() - read().unwrap().emergency_nodes.len(): the guard
\* of the first read lives to the end of the expression, so the second read
\* is asked for under it
ice_return(t) ==
    /\ ice # None
    /\ instr(t) \in {"return_area", "return_count", "return_nth",
                     "return_resources"}
    /\ ice' =
         CASE instr(t) = "return_area" ->
                [ice EXCEPT !.area = None,
                            !.task[t] = advance(t, Some(ice.in_emergency_area))]
           [] instr(t) = "return_count" ->
                [ice EXCEPT !.readers[t] = 0,
                            !.task[t] = advance(t,
                                Some(Len(IceNodes)
                                     - Cardinality(ice.emergency_nodes)))]
           [] instr(t) = "return_nth" ->
                [ice EXCEPT !.readers[t] = 0,
                            !.task[t] = advance(t,
                                ice_get_nth_node(ice.task[t].arg[1], 0, 1))]
           [] instr(t) = "return_resources" ->
                [ice EXCEPT !.accountant = None,
                            !.task[t] = advance(t, None)]
    /\ UNCHANGED <<nodes, strategy, emergency, identity, in_emergency_area,
                   cpus_available, ctl, req, last, network, machines,
                   instances, run, io, sock, held, guest, chain, legacy>>

\* the statements of set_emergency under its guards.  With emergency the
\* write guard is the local `lock`, dropped at the end of the function;
\* without, it is a temporary of the statement that calls
\* clean_emergency_nodes
ice_set_emergency(t) ==
    /\ ice # None
    /\ instr(t) \in {"compute_emergency_nodes", "clean_emergency_nodes",
                     "store_area", "drop_write"}
    /\ ice' =
         CASE instr(t) = "compute_emergency_nodes" ->
                [ice EXCEPT !.emergency_nodes =
                                {k \in DOMAIN IceNodes :
                                    distance(IceNodes[k],
                                             ice.task[t].arg[1].position)
                                        <= ice.task[t].arg[1].radius},
                            !.task[t] = advance(t, None)]
           [] instr(t) = "clean_emergency_nodes" ->
                [ice EXCEPT !.emergency_nodes = {},
                            !.writer = None,
                            !.task[t] = advance(t, None)]
           [] instr(t) = "store_area" ->
                [ice EXCEPT !.in_emergency_area = (ice.task[t].arg # None),
                            !.area = None,
                            !.task[t] = advance(t, None)]
           [] instr(t) = "drop_write" ->
                [ice EXCEPT !.writer = None, !.task[t] = advance(t, None)]
    /\ UNCHANGED <<nodes, strategy, emergency, identity, in_emergency_area,
                   cpus_available, ctl, req, last, network, machines,
                   instances, run, io, sock, held, guest, chain, legacy>>

InitIcebreaker ==
    /\ nodes = <<>>
    /\ strategy = "GeoDistance"
    /\ emergency = None
    /\ identity = [address |-> LocalAddress, position |-> 0]
    /\ in_emergency_area = FALSE
    /\ cpus_available = CpuTotal
    /\ ctl = [pc |-> "idle", em |-> None]
    /\ req = [r \in {1} |-> IdleRequest]
    /\ last = [op |-> "new", arg |-> None, ret |-> None]
    /\ network = Addresses_new
    /\ machines = <<>>
    /\ instances = <<>>
    /\ run = [r \in {1} |-> IdleRun]
    /\ io = None
    /\ sock = None
    /\ held = <<>>
    /\ guest = None
    /\ chain = None
    /\ legacy = None
    /\ ice \in {Orchestrator_new_ice(policy) : policy \in RwLockPolicies}

NextIcebreaker ==
    \/ \E call \in ControllerCalls : ice_call(IceController, call)
    \/ \E t \in IceHandlers : \E call \in HandlerCalls : ice_call(t, call)
    \/ \E t \in IceTasks : ice_read(t)
    \/ \E t \in IceTasks : ice_write(t)
    \/ \E t \in IceTasks : ice_lock(t)
    \/ \E t \in IceTasks : ice_return(t)
    \/ \E t \in IceTasks : ice_set_emergency(t)

SpecIcebreaker == InitIcebreaker /\ [][NextIcebreaker]_vars


(***************************************************************************)
(* SpecStartup: main from the ADD_NODES message to the orchestrator, and   *)
(* then one request of a client.  The list of the message is the one the   *)
(* controller collected from the registrations of the nodes: it holds the  *)
(* local node, and a node is in it as many times as it registered.         *)
(***************************************************************************)
\* the nodes a list can hold: the local node and two others
StartupNodes ==
    {[address |-> a, position |-> 0] : a \in {LocalAddress, Addr1, Addr2}}

\* the lists of an ADD_NODES message that hold the local node
StartupLists ==
    {list \in UNION {[1..n -> StartupNodes] : n \in 1..MaxNodes} :
        \E k \in DOMAIN list : list[k].address = LocalAddress}

\* nodes.extract_if(.., |n| n.address == address).next().unwrap(): the
\* first node of the list with the address is taken out of it, and the
\* iterator is dropped, which keeps the rest of the list
extract_identity(list, address) ==
    LET k == CHOOSE j \in DOMAIN list :
                /\ list[j].address = address
                /\ \A q \in 1..(j - 1) : list[q].address # address
    IN [identity |-> list[k],
        nodes |-> SubSeq(list, 1, k - 1) \o SubSeq(list, k + 1, Len(list))]

\* main: the ADD_NODES message is received, the identity is extracted and
\* the orchestrator is created
main_add_nodes(list) ==
    /\ last.op = "boot"
    /\ LET e == extract_identity(list, LocalAddress)
       IN /\ identity' = e.identity
          /\ nodes' = Orchestrator_new(e.nodes, strategy, e.identity,
                                       NoObservation(Len(e.nodes)))
    /\ last' = [op |-> "add_nodes", arg |-> list, ret |-> None]
    /\ UNCHANGED <<pipeline_vars, strategy, emergency, in_emergency_area,
                   cpus_available, ctl, req>>

InitStartup ==
    /\ strategy = "GeoDistance"
    /\ identity = [address |-> LocalAddress, position |-> 0]
    /\ nodes = <<>>
    /\ emergency = None
    /\ in_emergency_area = FALSE
    /\ cpus_available = CpuTotal
    /\ ctl = [pc |-> "idle", em |-> None]
    /\ req = [r \in {1} |-> IdleRequest]
    /\ last = [op |-> "boot", arg |-> None, ret |-> None]
    /\ PipelineInit({1})

NextStartup ==
    \/ \E list \in StartupLists : main_add_nodes(list)
    \/ /\ last.op = "add_nodes"
       /\ HandlerStep(1, AccountingInputs, {ClientIp})

SpecStartup == InitStartup /\ [][NextStartup]_vars


(***************************************************************************)
(* The claims.                                                             *)
(***************************************************************************)
\* the geodesic distance of two positions, in metres
Geodesic(p, q) == GridStep * Abs(p - q)

RECURSIVE SumOver(_, _)
\* the sum of f[r] over the r of a finite set S
SumOver(f, S) ==
    IF S = {} THEN 0
    ELSE LET r == CHOOSE x \in S : TRUE IN f[r] + SumOver(f, S \ {r})

Range(seq) == {seq[k] : k \in DOMAIN seq}

NoDuplicates(seq) == \A j, k \in DOMAIN seq : j # k => seq[j] # seq[k]

\* the cpus reserved by the admitted requests and not released
ReservedCpus == SumOver([r \in DOMAIN req |-> req[r].held], DOMAIN req)

\* the vcpus of the pipelines that are running
RunningVcpus ==
    SumOver([r \in DOMAIN req |->
                IF req[r].pc = "pipeline" THEN req[r].data.vcpus ELSE 0],
            DOMAIN req)

\* C1: CPU accounting: in every reachable state the free CPU count is
\* within [0, cpu_total] and equals cpu_total minus the vcpus reserved by
\* the admitted requests that have not released them; so the vcpus of the
\* pipelines running at the same time never sum to more than cpu_total.
C1_CpuAccounting ==
    /\ cpus_available \in 0..CpuTotal
    /\ cpus_available = CpuTotal - ReservedCpus
    /\ RunningVcpus <= CpuTotal

\* what the handler did for request r besides answering
NoEffect(r) ==
    /\ req[r].checks = 0 /\ req[r].acquired = 0 /\ req[r].held = 0
    /\ req[r].runs = 0 /\ req[r].records = 0
    /\ req[r].probed = <<>> /\ req[r].forwards = <<>>

\* C2: Hop limit: a request with hops > 10 is answered 500 'Too many hops'
\* and nothing else is done for it: no CPU is reserved, no record is
\* created, no pipeline is started and no peer is contacted; a request with
\* hops <= 10 is never answered 'Too many hops'.
C2_HopLimit ==
    \A r \in DOMAIN req :
        req[r].pc # "idle" =>
            /\ req[r].data.hops > 10 =>
                  /\ req[r].pc = "done"
                  /\ req[r].resp = [status |-> 500, body |-> "Too many hops\n"]
                  /\ NoEffect(r)
                  /\ cpus_available = CpuTotal
            /\ req[r].data.hops <= 10 =>
                  req[r].resp # [status |-> 500, body |-> "Too many hops\n"]

\* C2 witness: a request with hops = 11 has been answered
C2_Witness ==
    \E r \in DOMAIN req :
        /\ req[r].pc = "done"
        /\ req[r].data.hops = 11
        /\ req[r].resp = [status |-> 500, body |-> "Too many hops\n"]

\* C3: Hop monotonicity: the request a node forwards to a peer carries the
\* hops it was received with plus 1, and every other field unchanged.
C3_HopMonotonicity ==
    \A r \in DOMAIN req :
        \A k \in DOMAIN req[r].forwards :
            req[r].forwards[k].data = [req[r].data EXCEPT !.hops = @ + 1]


\* the answers an offload can end with
OffloadAnswers ==
    {[status |-> 500, body |-> "Insufficient resources\n"]}
        \cup {[status |-> 200, body |-> b] : b \in PeerBodies}

\* C4: Emergency admission: a request without the emergency flag that
\* arrives while the node is marked in-emergency-area is never admitted
\* locally: no admission check, no CPU reserved, no pipeline; it is
\* offloaded and answered by the offload (500 when no peer serves it, also
\* when local CPUs are free).  A request with the emergency flag goes
\* through the local admission check.
C4_EmergencyAdmission ==
    \A r \in DOMAIN req :
        (req[r].pc # "idle" /\ req[r].data.hops <= 10) =>
            /\ (req[r].in_area /\ ~req[r].data.emergency) =>
                  /\ req[r].checks = 0 /\ req[r].acquired = 0
                  /\ req[r].held = 0 /\ req[r].runs = 0 /\ req[r].records = 0
                  /\ req[r].pc \in {"offload", "lookup", "probe", "forward", "done"}
                  /\ req[r].pc = "done" => req[r].resp \in OffloadAnswers
            /\ req[r].data.emergency =>
                  \/ req[r].pc = "acquire" /\ req[r].checks = 0
                  \/ req[r].pc # "acquire" /\ req[r].checks = 1

\* C4 witness: a request without the flag arrived in the emergency area and
\* was answered 500 by the offload while every local CPU was free
C4_Witness ==
    \E r \in DOMAIN req :
        /\ req[r].in_area /\ ~req[r].data.emergency
        /\ req[r].pc = "done"
        /\ req[r].resp = [status |-> 500, body |-> "Insufficient resources\n"]
        /\ req[r].probed # <<>>
        /\ cpus_available = CpuTotal

\* C5: Emergency mask: after registry.set_emergency(em), from any registry
\* state, a peer is masked if and only if its distance to em.position is
\* <= em.radius, and the stored emergency is em.
C5_EmergencyMask ==
    last.op = "set_emergency" =>
        /\ \A k \in DOMAIN nodes :
              nodes[k].emergency <=>
                  Geodesic(nodes[k].position, last.arg.position) <= last.arg.radius
        /\ emergency = last.arg

\* C6: Local emergency flag: after any sequence of START_EMERGENCY and
\* STOP_EMERGENCY events, GET /emergency reports true exactly when an
\* emergency is active and the local node is within its radius; after
\* STOP_EMERGENCY it reports false and no peer is masked.
C6_LocalEmergencyFlag ==
    ctl.pc = "idle" =>
        /\ emergency_endpoint <=>
              /\ emergency # None
              /\ Geodesic(identity.position, emergency.position) <= emergency.radius
        /\ emergency = None =>
              /\ ~emergency_endpoint
              /\ \A k \in DOMAIN nodes : ~nodes[k].emergency

\* the unmasked peers, in the order of the registry
Available == SelectSeq(nodes, LAMBDA node : ~node.emergency)

\* the i-th unmasked peer of the current order, if there is one
NthAvailable(i) == IF i < Len(Available) THEN Available[i + 1] ELSE None

\* C7: Peer lookup: nth(i) is the i-th unmasked peer of the current order
\* for i < count_available() and none for larger i, a masked peer is never
\* returned, and count_available() is the number of unmasked peers.
C7_PeerLookup ==
    /\ \A i \in 0..(MaxNodes + 1) :
          /\ get_nth(nodes, i) = NthAvailable(i)
          /\ get_nth(nodes, i) # None => ~get_nth(nodes, i).emergency
    /\ number_of_nodes(nodes) = Cardinality({k \in DOMAIN nodes : ~nodes[k].emergency})
    /\ last.op = "get_nth" => last.ret = NthAvailable(last.arg)
    /\ last.op = "count_available" => last.ret = Len(Available)

\* C7 witness: nth returned a peer that stands behind a masked peer
C7_Witness ==
    /\ last.op = "get_nth"
    /\ last.ret # None
    /\ \E j, k \in DOMAIN nodes :
          k < j /\ nodes[k].emergency /\ nodes[j] = last.ret

\* the distance of the local identity to the i-th available peer
DistanceOfNth(i) == Geodesic(identity.position, get_nth(nodes, i).position)

\* nth(0), nth(1), ... is in non-decreasing order of distance
OrderedByDistance ==
    \A i, j \in 0..Len(nodes) :
        (i < j /\ j < number_of_nodes(nodes)) =>
            DistanceOfNth(i) <= DistanceOfNth(j)

\* C8: Sort postcondition: after registry.sort(local identity) under
\* GeoDistance, the distance to nth(i) is <= the distance to nth(j) for all
\* i < j < count_available(); the nearest available peer is first.
C8_SortPostcondition ==
    (last.op = "sort" /\ strategy = "GeoDistance") =>
        /\ OrderedByDistance
        /\ \A k \in DOMAIN nodes :
              ~nodes[k].emergency =>
                  DistanceOfNth(0) <= Geodesic(identity.position, nodes[k].position)

\* C8 witness: a sort of three available peers that moved the peer added
\* last, which is nearer than the others, to the front
C8_Witness ==
    /\ last.op = "sort" /\ strategy = "GeoDistance"
    /\ number_of_nodes(nodes) = 3
    /\ nodes[1].address = Addr3
    /\ DistanceOfNth(0) < DistanceOfNth(1)

\* the score of the i-th available peer under the active strategy: its
\* distance to the local identity under GeoDistance, its latency under
\* SimpleCellular and SmartLatency
ScoreOfNth(i) ==
    IF strategy = "GeoDistance" THEN DistanceOfNth(i)
    ELSE get_nth(nodes, i).latency

\* C9: Registry ordering: after any state-changing registry call (add,
\* set_emergency, clear_emergency, sort) nth(0), ..., nth(count-1) is in
\* non-decreasing score order relative to the local identity.
C9_RegistryOrdering ==
    last.op \in {"add_node", "set_emergency", "clear_emergency", "sort"} =>
        \A i, j \in 0..Len(nodes) :
            (i < j /\ j < number_of_nodes(nodes)) => ScoreOfNth(i) <= ScoreOfNth(j)

\* the IP of an "ip:port" address
RECURSIVE ip_of(_)
ip_of(address) ==
    IF address = <<>> \/ Head(address) = ":" THEN <<>>
    ELSE <<Head(address)>> \o ip_of(Tail(address))

\* C10: Offload coverage: when an offload ends with 500, every peer that
\* was available during the whole offload and does not have the
\* requester's IP has been probed; no peer is probed more than once.
C10_OffloadCoverage ==
    \A r \in DOMAIN req :
        /\ NoDuplicates(req[r].probed)
        /\ (req[r].pc = "done" /\ req[r].n > 0 /\
            req[r].resp = [status |-> 500, body |-> "Insufficient resources\n"]) =>
              \A a \in req[r].steady :
                  ip_of(a) # req[r].src => a \in Range(req[r].probed)

\* C11: Ping-pong prevention: offload never probes or forwards to a peer
\* whose address has the IP of the requester, and it skips a peer as the
\* origin only when the peer's IP is equal to the requester's IP.
C11_PingPong ==
    \A r \in DOMAIN req :
        /\ \A a \in Range(req[r].probed) : ip_of(a) # req[r].src
        /\ \A k \in DOMAIN req[r].forwards :
              ip_of(req[r].forwards[k].to) # req[r].src
        /\ \A a \in Range(req[r].skipped) : ip_of(a) = req[r].src

\* the answer to a probe reports at least the requested vcpus and, in KB,
\* at least the requested MB of memory
Sufficient(resources, data) ==
    /\ resources # None
    /\ resources.cpus >= data.vcpus
    /\ resources.memory \div 1024 >= data.memory

\* C12: Probe gating: a request is forwarded to a peer only after the
\* peer's answer to GET /resources in the same offload reported cpus >= the
\* requested vcpus and memory in KB >= the requested MB times 1024; a peer
\* whose probe failed or reported less is not sent the request.
C12_ProbeGating ==
    \A r \in DOMAIN req :
        /\ req[r].pc = "forward" =>
              /\ Sufficient(req[r].resources, req[r].data)
              /\ req[r].probed # <<>>
              /\ req[r].probed[Len(req[r].probed)] = req[r].node
        /\ \A k \in DOMAIN req[r].forwards :
              /\ Sufficient(req[r].forwards[k].resources, req[r].data)
              /\ req[r].forwards[k].to \in Range(req[r].probed)

\* the request was handed to offload and offload has answered
Offloaded(r) ==
    /\ req[r].pc = "done"
    /\ req[r].acquired = 0
    /\ req[r].resp # TooManyHops

\* the forwards of r that a peer served
Served(r) ==
    {k \in DOMAIN req[r].forwards : req[r].forwards[k].result # InvokeError}

C13_Outcome ==
    \A r \in DOMAIN req :
        /\ req[r].pc \in {"offload", "lookup", "probe", "forward"} =>
              req[r].resp = None /\ Served(r) = {}
        /\ Offloaded(r) =>
              IF Served(r) = {}
              THEN req[r].resp = [status |-> 500,
                                  body |-> "Insufficient resources\n"]
              ELSE /\ Served(r) = {Len(req[r].forwards)}
                   /\ req[r].resp =
                        [status |-> 200,
                         body |-> req[r].forwards[Len(req[r].forwards)].result]

C13_Continue ==
    \A r \in DOMAIN req :
        /\ req[r].pc = "done" =>
              /\ req'[r].pc = "done" /\ req'[r].resp = req[r].resp
              /\ req'[r].probed = req[r].probed
              /\ req'[r].forwards = req[r].forwards
        /\ (/\ req[r].pc \in {"probe", "forward"}
            /\ req'[r].pc \notin {req[r].pc, "forward"}
            /\ Served(r)' = {}) =>
              IF req[r].i + 1 < req[r].n
              THEN req'[r].pc = "lookup" /\ req'[r].i = req[r].i + 1
              ELSE req'[r].pc = "done" /\ req'[r].resp.status = 500

C14_NoIpLeak ==
    \A ip \in network.filter :
        \E r \in DOMAIN run : run[r].address = Some(ip)

\* C15: Failure cleanup of the microVM: whenever a pipeline run ends in
\* Failed, its microVM is no longer running and its TAP is removed,
\* whatever step failed and whatever the kill request returned.
C15_FailureCleanup ==
    \A k \in DOMAIN machines :
        machines[k].ended = "Failed" =>
            /\ machines[k].vm \notin {"created", "running"}
            /\ machines[k].tap # "up"

\* the record k belongs to a run in progress
RecordInUse(k) ==
    \E r \in DOMAIN run :
        run[r].instance # None /\ run[r].instance.id = instances[k].id

C16_Started ==
    \A k \in DOMAIN instances :
        instances[k].status = "started" => RecordInUse(k)

C16_Step ==
    /\ \A k \in DOMAIN instances' \ DOMAIN instances :
          instances'[k].status = "started"
    /\ \A k \in DOMAIN instances :
          /\ k \in DOMAIN instances'
          /\ instances'[k].status # instances[k].status =>
                /\ instances[k].status = "started"
                /\ instances'[k].status \in {"terminated", "failed"}

\* C16: Record lifecycle: every record is inserted with status 'started',
\* moves at most once to 'terminated' or 'failed' and never changes
\* afterwards; once the run that created it has ended, it is not 'started'.
C16_RecordLifecycle == []C16_Started /\ [][C16_Step]_vars

\* C17: Cleanup before status: in no reachable state does the log hold a
\* record 'failed' or 'terminated' whose microVM is still alive.
C17_CleanupBeforeStatus ==
    \A k \in DOMAIN instances :
        instances[k].status \in {"failed", "terminated"} =>
            machines[instances[k].fc].vm \notin {"created", "running"}

C19_NoReinvocation ==
    \A r \in DOMAIN req :
        /\ run[r].handshakes <= 1
        /\ run[r].late > 0 =>
              /\ req[r].runs = run[r].late
              /\ req[r].pc \in {"run", "done"}
              /\ req[r].pc = "done" => req[r].resp.status = 500

\* the first 5 bytes of what the guest sent are "ready"
GreetsReady(greeting) ==
    Len(greeting) >= 5 /\ SubSeq(greeting, 1, 5) = <<"r", "e", "a", "d", "y">>

\* C20: Handshake: the pipeline moves from Running to HandshakeOk if and
\* only if the first 5 bytes the guest sends on the accepted stream are
\* 'ready', however they are split across reads; any other content, or the
\* end of the stream before 5 bytes, leads to Failed.
C20_Handshake ==
    \A r \in DOMAIN run :
        /\ run[r].handshake = "ok" => GreetsReady(run[r].greeting)
        /\ run[r].handshake = "mismatch" => ~GreetsReady(run[r].greeting)


\* the bytes a decoder recovers from a stream: it reads the length, 8 bytes
\* big-endian, and then that many bytes
decode(bytes) ==
    IF Len(bytes) < 8 THEN None
    ELSE LET n == from_be_bytes(SubSeq(bytes, 1, 8))
         IN IF Len(bytes) < 8 + n THEN None
            ELSE Some(SubSeq(bytes, 9, 8 + n))

\* the payload is written: the response is awaited or was read
PayloadSent == io # None /\ io.pc \in {"response", "read_body", "stop"}

\* the bytes of the payload; none without a payload
payload_bytes == IF io.payload = None THEN <<>> ELSE io.payload[1]

ResponseReceived == io # None /\ io.pc = "stop"

\* C22: the pipeline returns success with a body only if it received a
\* complete length, 8 bytes big-endian, followed by exactly that many bytes,
\* and the body is those bytes; a stream that ends before the 8 + L bytes
\* arrived never gives a success with a short or zero-filled body.
C22_ResponseFraming ==
    ResponseReceived =>
        /\ Len(io.received) >= 8
        /\ io.received = be_bytes(Len(io.buf), 8) \o io.buf


\* a call with a deadline of at least 2 ms on a stream that never becomes
\* ready, or that answers WouldBlock for ever
NeverReady ==
    /\ sock # None
    /\ sock.stream \in {"silent", "blocking"}
    /\ sock.max_timeout >= 2

\* the call returned the error TimedOut
ReturnedTimeout ==
    sock # None /\ sock.pc = "returned" /\ sock.result = Some(TimedOut)

\* C23: read_exact and write_all called with a deadline of at least 2 ms on
\* a stream that never becomes ready, or that answers WouldBlock for ever,
\* eventually return a Timeout error: they never wait or retry without end.
C23_DeadlineTimeout == NeverReady ~> ReturnedTimeout


\* a pipeline run is under way: its machine is neither Terminated nor Failed
RunUnderWay == \E k \in DOMAIN machines : machines[k].ended = "no"

\* C24: every pipeline run eventually reaches Terminated or Failed, whatever
\* the guest does: a guest that connects and never writes 'ready', that
\* never sends its response, that never reads the payload, or whose vsock
\* path never appears.
C24_PipelineEnds == RunUnderWay ~> ~RunUnderWay


\* C25: over every sequence of get and release in which release is called
\* with an address held, get never returns an address that is held: no two
\* of the addresses held are the same, so two live microVMs never have the
\* same guest address.
C25_IpUniqueness ==
    \A j, k \in DOMAIN held : held[j] = held[k] => j = k

\* an address released and got again is held beside another one
C25_Witness ==
    /\ Len(held) >= 2
    /\ network.last_assigned > held[Len(held)]
    /\ last.op = "get"


\* a step that is a call of get
GetStep ==
    /\ last'.op = "get"
    /\ <<network, held, last>>' # <<network, held, last>>

\* the address a get returned
got(ret) == ret.ip

\* C26: a fresh pool hands out the addresses in increasing order from the
\* second host address on (.2, .3, ...): the first get returns .2 and, while
\* no released address waits, a get returns the address after the highest
\* one handed out; after release(ip) the next get returns ip, the most
\* recently released address, and a get returns a released address before
\* any address never used.
C26_Order ==
    GetStep =>
        /\ last.op = "new" => got(last'.ret) = Some(2)
        /\ network.available = <<>> /\ got(last'.ret) # None
              => got(last'.ret) = Some(network.last_assigned + 1)
        /\ network.available # <<>>
              => \E k \in DOMAIN network.available :
                    got(last'.ret) = Some(network.available[k])
        /\ last.op = "release" => got(last'.ret) = last.arg

C26_AllocationOrder == [][C26_Order]_vars

\* .2, .3 and .4 were handed out, .3 and then .2 released, and the next get
\* returned .2
C26_Witness ==
    /\ last.op = "get"
    /\ last.ret.ip = Some(2)
    /\ held = <<4, 2>>
    /\ network.available = <<3>>
    /\ network.last_assigned = 4


\* the addresses a machine can use: .0 is the network, .1 is reserved and
\* the last one is the broadcast address
Usable == 2..(NetworkSize - 2)

\* every usable address is held
AllHeld == \A a \in Usable : \E k \in DOMAIN held : held[k] = a

\* C27: when every usable address is held, get returns None: it does not
\* panic and returns no address; `available`, the filter and the addresses
\* held are unchanged; and after a later release the next get returns an
\* address again.
C27_Step ==
    /\ GetStep /\ AllHeld =>
          /\ last'.ret = [ip |-> None, panic |-> FALSE]
          /\ held' = held
          /\ network'.available = network.available
          /\ network'.filter = network.filter
    /\ GetStep /\ last.op = "release" => got(last'.ret) # None

C27_Exhaustion == [][C27_Step]_vars


\* a handler is in a pipeline run or in an HTTP call to a peer
Suspended(r) == req[r].pc \in {"run", "probe", "forward"}

\* C28: in no reachable state does a task hold two of the locks of the
\* orchestrator at once (the mutex of the accountant, the mutex of
\* in_emergency_area, the read/write lock of the registry, the mutex of the
\* pool of addresses), and no lock is held across a pipeline run or an HTTP
\* call to a peer.
C28_OneLock ==
    /\ Cardinality(controller_locks) <= 1
    /\ \A r \in DOMAIN req :
          /\ Cardinality(handler_locks(r)) <= 1
          /\ Suspended(r) => handler_locks(r) = {}


\* C29: after clear_emergency, from any state of the registry, no peer is
\* masked and no emergency is stored, and the peers and their order are
\* those of before the call.
C29_Step ==
    last'.op = "clear_emergency" =>
        /\ emergency' = None
        /\ \A i \in DOMAIN nodes' : ~nodes'[i].emergency
        /\ Len(nodes') = Len(nodes)
        /\ \A i \in DOMAIN nodes :
              [nodes'[i] EXCEPT !.emergency = nodes[i].emergency] = nodes[i]

C29_ClearEmergency == [][C29_Step]_vars

\* clear_emergency was called on a full registry
C29_Witness ==
    /\ last.op = "clear_emergency"
    /\ Len(nodes) = MaxNodes
    /\ emergency = None
    /\ \A i \in DOMAIN nodes : ~nodes[i].emergency


\* the score a sort compares: the distance of the peer to the local identity
\* under GeoDistance, the latency the sort obtained from the peer otherwise
Score(node) ==
    IF strategy = "GeoDistance"
    THEN Geodesic(identity.position, node.position)
    ELSE node.latency

\* the list index of the peer with the address `address`
IndexOf(ns, address) == CHOOSE k \in DOMAIN ns : ns[k].address = address

\* C30: when the registry is sorted, by distance or by latency, two peers
\* with equal score keep their relative order, so that peers of equal score
\* stay in insertion order.
C30_Step ==
    last'.op = "sort" =>
        \A i, j \in DOMAIN nodes' :
            (i < j /\ Score(nodes'[i]) = Score(nodes'[j])) =>
                IndexOf(nodes, nodes'[i].address)
                    < IndexOf(nodes, nodes'[j].address)

AscendingLatency(ns) ==
    \A i, j \in DOMAIN ns : i < j => ns[i].latency <= ns[j].latency

\* in the list `ns` every peer without a latency sample comes after every
\* peer with at least one
UnseenLast(ns) ==
    \A i, j \in DOMAIN ns :
        (ns[i].sample_count = 0 /\ ns[j].sample_count > 0) => j < i

\* C31: under the SmartLatency strategy sort() leaves the order of the
\* registry unchanged whenever no emergency is stored, and while an
\* emergency is stored it puts the peers in ascending order of their mean
\* latency, every peer without a latency sample after every peer with one.
C31_Step ==
    (last'.op = "sort" /\ strategy = "SmartLatency") =>
        IF emergency = None THEN nodes' = nodes
        ELSE /\ AscendingLatency(nodes')
             /\ UnseenLast(nodes')
             /\ Range(nodes') = Range(nodes)

C31_SmartLatencyOrdering == [][C31_Step]_vars

\* a sort during an emergency moved the second peer, which has samples, in
\* front of the first, which has none
C31_Witness ==
    /\ last.op = "sort"
    /\ strategy = "SmartLatency"
    /\ emergency # None
    /\ Len(nodes) = 2
    /\ nodes[1].address = Addr2
    /\ nodes[1].sample_count > 0
    /\ nodes[2].sample_count = 0


\* the call of check_and_acquire_resources of the request r returns in this
\* step
AdmissionReturns(r) == req[r].pc = "acquire" /\ req'[r].pc # "acquire"

\* C32: check_and_acquire_resources(cpus, memory) either decrements the free
\* CPU count by exactly cpus, which it does only when cpus <= free CPUs and
\* memory <= available memory, or returns InsufficientResources with the
\* free CPU count unchanged; the check and the decrement are one step, also
\* for concurrent callers, and the count never reads negative.
C32_Step ==
    /\ cpus_available \in Nat
    /\ \A r \in DOMAIN req : AdmissionReturns(r) =>
          LET cpus == req[r].data.vcpus
              memory == i32_mul_1024(req[r].data.memory)
          IN IF req'[r].acquired = req[r].acquired + 1
             THEN /\ cpus <= cpus_available
                  /\ \E m \in AvailableMemory : as_usize_le(memory, m)
                  /\ cpus_available' = cpus_available - cpus
                  /\ cpus_available' \in Nat
             ELSE /\ req'[r].pc = "release_unacquired"
                  /\ \/ cpus > cpus_available
                     \/ \E m \in AvailableMemory : ~as_usize_le(memory, m)
                  /\ req'[r].held = req[r].held
                  /\ cpus_available' = cpus_available

Max(a, b) == IF a >= b THEN a ELSE b

\* the sleeps of the call: the first is 2 ms, each later one is
\* min(2 x the one before, deadline_ms)
DoublingSleeps ==
    \A k \in DOMAIN sock.sleeps :
        sock.sleeps[k] = IF k = 1 THEN 2
                         ELSE Min(2 * sock.sleeps[k - 1], sock.max_timeout)

\* C33 as stated: inside one read_exact or write_all call, the sleep after
\* the first WouldBlock is 2 ms and each later sleep is
\* min(2 x previous sleep, deadline_ms); the backoff delay is never below
\* 2 ms and never above max(2, deadline_ms).
C33_Stated ==
    sock # None =>
        /\ DoublingSleeps
        /\ sock.delay >= 2
        /\ sock.delay <= Max(2, sock.max_timeout)

\* C33: inside one read_exact or write_all call, the sleep after the first
\* WouldBlock is 2 ms and each later sleep is min(2 x previous sleep,
\* deadline_ms); the backoff delay is never below min(2, deadline_ms) and
\* never above max(2, deadline_ms).
C33_BackoffSequence ==
    sock # None =>
        /\ DoublingSleeps
        /\ sock.delay >= Min(2, sock.max_timeout)
        /\ sock.delay <= Max(2, sock.max_timeout)

\* a call with a deadline of 1 ms slept 2 ms, then 1 ms, then 1 ms
C33_Witness ==
    /\ sock # None
    /\ sock.max_timeout = 1
    /\ Len(sock.sleeps) >= 3
    /\ SubSeq(sock.sleeps, 1, 3) = <<2, 1, 1>>
    /\ sock.delay = 1


\* where the handler of a request is from the call of start_instance to its
\* answer, in the order of the steps of a run that succeeds: before
\* new_instance, before the insertion of the record, before the bind of the
\* listener, before the start of the microVM, before the accept, before the
\* greeting is read, before the payload is written, before the response is
\* read, before the microVM is stopped and deleted, before the status
\* 'terminated' is written, answered
StepOrder ==
    <<"run", "insert", "vsock", "start", "accept", "handshake", "payload",
      "response", "stop", "terminated", "done">>

\* the handler goes from `a` to the step that follows it in the order
NextInOrder(a, b) ==
    \E k \in 1..(Len(StepOrder) - 1) : StepOrder[k] = a /\ StepOrder[k + 1] = b

\* the handler r comes to a later step of its run, or answers 200
Advances(r) ==
    /\ req'[r].pc # req[r].pc
    /\ req'[r].pc \in Range(StepOrder) \ {"run"}
    /\ req'[r].pc = "done" => req'[r].resp.status = 200

\* what the step that leaves `a` has done when the run goes on
StepDone(r, a) ==
    CASE a = "run" ->
            /\ run'[r].address # None
            /\ run'[r].address[1] \in network'.filter
            /\ Len(machines') = Len(machines) + 1
            /\ machines'[run'[r].fc].vm = "created"
      [] a = "insert" ->
            /\ Len(instances') = Len(instances) + 1
            /\ instances'[Len(instances')].status = "started"
      [] a = "start" -> machines'[run[r].fc].vm = "running"
      [] a = "accept" -> run'[r].stream # None
      [] a = "handshake" -> message_ready(run'[r].buf)
      [] a = "response" -> run'[r].body # None
      [] a = "stop" ->
            \E stopped, killed \in Results :
                machines'[run[r].fc] =
                    FirecrackerInstance_delete(
                        FirecrackerInstance_stop(machines[run[r].fc], stopped),
                        killed)
      [] OTHER -> TRUE

\* C34: in every pipeline run the steps happen in this order and none is
\* skipped on the way to success: guest IP allocated and record inserted,
\* listener bound, microVM started, connection accepted, 'ready' read,
\* payload written, response read, microVM stopped and deleted; the microVM
\* is started only once the listener is bound and the payload is written
\* only once the handshake has completed.
C34_Step ==
    \A r \in DOMAIN req :
        /\ Advances(r) =>
              /\ NextInOrder(req[r].pc, req'[r].pc)
              /\ StepDone(r, req[r].pc)
        /\ \A k \in DOMAIN machines :
              (machines[k].vm # "running" /\ machines'[k].vm = "running") =>
                  (req[r].pc = "start" /\ run[r].fc = k)
        /\ req'[r].pc \in {"response", "stop", "terminated"} =>
              run'[r].handshake = "ok"

C34_StepOrder == [][C34_Step]_vars

\* a run went through all its steps: the request is answered 200 with the
\* body of the guest, its microVM is killed and its TAP removed
C34_Witness ==
    /\ req[1].pc = "done"
    /\ req[1].resp = Ok("hello")
    /\ machines[Len(machines)].ended = "Terminated"
    /\ machines[Len(machines)].vm = "killed"
    /\ machines[Len(machines)].tap = "removed"
    /\ instances[Len(instances)].status = "terminated"


\* C35: in a cluster of nodes running this code, a client request entering
\* with hops = 0 is forwarded from node to node at most 11 times in total:
\* after that every node rejects it, so that no request circulates between
\* the nodes for ever.
C35_BoundedChain == chain # None => chain.forwards <= MaxHops + 1


\* C36: for any sequence of get() and release() calls, every address
\* returned by get() is a usable host address of the network: never the
\* network address, never the first host address, reserved for the gateway,
\* and never the last address, reserved for broadcast.
C36_UsableRange ==
    (last.op = "get" /\ last.ret.ip # None) => last.ret.ip[1] \in Usable


\* C37: GlobalResources::clean_emergency_nodes() sets the emergency flag of
\* every node to false, resets the stored emergency position and radius,
\* and leaves the node list itself unchanged (same nodes, same order), so
\* that afterwards nth(i) returns a node for every i < len().
C37_Step ==
    last'.op = "clean_emergency_nodes" =>
        /\ legacy'.emergency = 0 /\ legacy'.radius = 0
        /\ legacy'.nodes = clear_emergency_flags(legacy.nodes)
        /\ \A i \in 0..(Len(legacy'.nodes) - 1) :
              get_nth(legacy'.nodes, i) # None

C37_LegacyClean == [][C37_Step]_vars


\* the address, the position and the emergency flag of a peer
Peer(node) ==
    [address |-> node.address, position |-> node.position,
     emergency |-> node.emergency]

\* the list `after` holds the peers of the list `before`, each once, with
\* the same address, position and emergency flag
Permutation(before, after) ==
    /\ Len(after) = Len(before)
    /\ \A k \in DOMAIN before :
          Cardinality({j \in DOMAIN after : Peer(after[j]) = Peer(before[k])})
              = Cardinality({j \in DOMAIN before :
                                Peer(before[j]) = Peer(before[k])})

\* C38: every sort of the registry, by distance or by latency, under any
\* strategy, keeps exactly the same peers, each exactly once, with the same
\* address, position and emergency flag as before: sorting never drops,
\* duplicates or unmasks a peer.
C38_Step == last'.op = "sort" => Permutation(nodes, nodes')

C38_SortPermutation == [][C38_Step]_vars

\* a sort by latency moved the second peer to the front of the first, which
\* is masked
C38_Witness ==
    /\ last.op = "sort"
    /\ strategy = "SimpleCellular"
    /\ Len(nodes) = 2
    /\ nodes[1].address = Addr2
    /\ nodes[2].address = Addr1
    /\ nodes[2].emergency
    /\ ~nodes[1].emergency


\* C39: for any ADD_NODES list received at startup that contains the local
\* address, the registry built from it contains no peer with the local
\* address, so that offload never probes or forwards a request to the
\* local node itself.
C39_NoSelfForward ==
    last.op = "add_nodes" =>
        /\ \A k \in DOMAIN nodes : nodes[k].address # identity.address
        /\ \A r \in DOMAIN req :
              /\ \A k \in DOMAIN req[r].probed :
                    req[r].probed[k] # identity.address
              /\ \A k \in DOMAIN req[r].forwards :
                    req[r].forwards[k].to # identity.address


(***************************************************************************)
(* Deadlock freedom of the locks of the orchestrator                       *)
(***************************************************************************)
\* the tasks of S wait for ever: each is at an acquisition that the guards
\* held by the tasks of S alone keep from being granted
Deadlocked(S) ==
    \A t \in S :
        /\ instr(t) \in {"read", "write", "lock_area", "lock_resources"}
        /\ ~granted(t, S)

\* C40: under any interleaving of the emergency controller and the
\* handlers, no state is reached in which tasks wait for ever on the lock of
\* the registry, the mutex of in_emergency_area or the mutex of the
\* accountant
C40_DeadlockFree ==
    ice # None => \A S \in SUBSET IceTasks : S # {} => ~Deadlocked(S)

=============================================================================
